---- MODULE Spec2Model ----
(***************************************************************************)
(* A model of the image pipeline of Smart_Image_Searching_Tool:            *)
(*   search_images   (image_tool.py, download_images.py)                   *)
(*   download_image  (image_tool.py, download_images.py)                   *)
(*   evaluate_best_image and the three drivers' main loops.                *)
(* Each function of the source is an operator over a record holding its    *)
(* local variables; a loop is an operator for one iteration, applied one   *)
(* step at a time by an action (the collaborator's answer is the input of  *)
(* the step).                                                              *)
(***************************************************************************)
EXTENDS Integers, Sequences, FiniteSets, TLC

VARIABLES
    search,     \* search_images: its locals, the requests it made, its result
    pages,      \* the provider's answers to the requests of this call, in order
    download,   \* download_image: its locals, the destination path, its result
    outcomes,   \* what happened in each attempt of this call, in order
    ev,         \* evaluate_best_image: its locals, the calls it made, its result
    responses,  \* the evaluator's answers to the inference calls, in order
    chosen,     \* the rank of the candidate main copied to the final path (0: none)
    downloaded_images,  \* image_tool.main: the 0-based indices downloaded and validated
    pc,         \* where the main loop is
    keywords,   \* filtered_keywords: the selected keyword records, in order
    cfg,        \* the run's driver and its configuration from the environment
    run,        \* the number of the run (one run: one execution of a driver's main)
    history,    \* the earlier runs: their configuration, and whether main returned
    kidx,       \* the position in keywords of the item the loop is at
    output,     \* output/<stem>.jpg, for every stem
    folders,    \* the stems whose directory output_candidates/<stem> exists
    candidates, \* output_candidates/<stem>/candidate_<n>.jpg, for every stem and n
    tempfiles,  \* temp_<i>.jpg in the working directory
    images,     \* main: the search results of the current keyword
    best_index, \* image_tool.main: the index chosen for the current keyword
    img_index,  \* main: the position of the download loop
    tlog,       \* the calls made for the current keyword, in order
    sel,        \* main's selection of the keywords: its locals and position
    cool,       \* the main loop of a driver seen from its cooldown: counter and pauses
    fixer       \* fix_corrupted_images.main: its lists, the answer and the files

searchVars == <<search, pages>>
downloadVars == <<download, outcomes>>
evalVars == <<ev, responses, chosen, downloaded_images, pc>>
fs == <<output, folders, candidates, tempfiles>>
runVars == <<keywords, cfg, run, history, kidx>>
turnVars == <<images, best_index, img_index, tlog>>
pipeVars == <<runVars, fs, turnVars>>
selVars == <<sel>>
toolVars == <<cool, fixer>>
vars == <<searchVars, downloadVars, evalVars, pipeVars, selVars, toolVars>>

Min(a, b) == IF a <= b THEN a ELSE b

(***************************************************************************)
(* Program constants.                                                      *)
(***************************************************************************)
ProviderCeiling == 100     \* min(num, 100)
PerRequest == 10           \* at most 10 results per request
PageDelayMs == 300         \* time.sleep(0.3)
MinBytes == 1024           \* a payload or file below 1024 bytes is rejected
RetryDelayMs == 1000       \* time.sleep(1)
EvalMaxRetries == 3        \* evaluate_best_image(..., max_retries=3)
TempMaxRetries == 2        \* download_image(url, temp_file, max_retries=2)
UploadDelayMs == 500       \* time.sleep(0.5)
PreEvalDelayMs == 2000     \* time.sleep(2)
PostEvalDelayMs == 3000    \* time.sleep(3)

(***************************************************************************)
(* Bounds of the model.                                                    *)
(***************************************************************************)
MaxCount == 12             \* requested counts 1..MaxCount are all tried
MaxRetries == 3            \* download_image is tried with max_retries in 0..MaxRetries
MaxListing == 11           \* candidate directories hold up to MaxListing files
SmallListing == 3          \* up to here: every subset, every upload/delete failure
MaxKeywords == 2           \* keyword lists hold 1..MaxKeywords records
MaxResults == 2            \* NUM_RESULTS is tried in 1..MaxResults
MaxRuns == 2               \* runs of a driver on one file system
MaxSeq == 3                \* the first list holds the ids 1-1 .. 1-MaxSeq
MaxIndex == 5              \* START_INDEX and END_INDEX are tried in 0..MaxIndex

\* Requested counts: every small one, and the ones around the ceiling.
SearchCounts == (1..MaxCount) \cup {25, 99, 100, 101, 150}

(***************************************************************************)
(* search_images                                                           *)
(***************************************************************************)
\* The provider's answer to one request: a transport/HTTP failure, or a page
\* of items. An item is named by its place in the provider's order.
ErrorResponse == [ok |-> FALSE, items |-> <<>>]
Page(p, n) == [ok |-> TRUE, items |-> [i \in 1..n |-> <<p, i>>]]

max_total(num) == Min(num, ProviderCeiling)

\* A mutant of requests_needed: the division rounds down.
requests_needed_floor(num) == max_total(num) \div PerRequest

requests_needed(num) == (max_total(num) + (PerRequest - 1)) \div PerRequest

search_start(num) ==
    [num |-> num, request_index |-> 0, all_images |-> <<>>,
     log |-> <<>>, pc |-> "loop"]

start_index(st) == st.request_index * PerRequest + 1
results_needed(st) == Min(PerRequest, max_total(st.num) - Len(st.all_images))

\* Whether the loop body reaches requests.get in this iteration.
search_requests(st) ==
    /\ st.pc = "loop"
    /\ st.request_index < requests_needed(st.num)
    /\ results_needed(st) > 0

\* A mutant of search_iter: a failed or empty page is passed over
\* (`continue`) instead of ending the loop.
search_iter_continue(st, resp) ==
    IF ~search_requests(st)
    THEN [st EXCEPT !.pc = "return"]
    ELSE [st EXCEPT
            !.all_images = @ \o resp.items,
            !.log = Append(@, <<"GET", start_index(st), results_needed(st)>>),
            !.request_index = @ + 1]

\* search_iter with the pause taken after every page that holds items.
search_iter_always_sleep(st, resp) ==
    IF ~search_requests(st)
    THEN [st EXCEPT !.pc = "return"]
    ELSE LET get == <<"GET", start_index(st), results_needed(st)>> IN
         IF ~resp.ok \/ resp.items = <<>>
         THEN [st EXCEPT !.log = Append(@, get), !.pc = "return"]
         ELSE [st EXCEPT
                 !.all_images = @ \o resp.items,
                 !.log = Append(@, get) \o <<(<<"sleep", PageDelayMs>>)>>,
                 !.request_index = @ + 1]

\* One iteration of `for request_index in range(requests_needed)`, given the
\* provider's answer to the request the iteration makes (if it makes one).
search_iter(st, resp) ==
    IF ~search_requests(st)
    THEN [st EXCEPT !.pc = "return"]
    ELSE LET get == <<"GET", start_index(st), results_needed(st)>> IN
         IF ~resp.ok \/ resp.items = <<>>
         THEN [st EXCEPT !.log = Append(@, get), !.pc = "return"]
         ELSE [st EXCEPT
                 !.all_images = @ \o resp.items,
                 !.log = Append(@, get) \o
                         (IF st.request_index < requests_needed(st.num) - 1
                          THEN <<(<<"sleep", PageDelayMs>>)>> ELSE <<>>),
                 !.request_index = @ + 1]

(***************************************************************************)
(* Files. A file is what a path holds: nothing, a completely written JPEG  *)
(* (the re-encoding of the image fetched from url), or the beginning of    *)
(* one, left by a save that failed.                                        *)
(***************************************************************************)
NoFile == [kind |-> "absent", url |-> <<>>, len |-> 0]
Jpeg(url, len) == [kind |-> "jpeg", url |-> url, len |-> len]
PartialFile(url, len) == [kind |-> "partial", url |-> url, len |-> len]

(***************************************************************************)
(* download_image                                                          *)
(***************************************************************************)
\* What one attempt meets: requests.get raises (transport), or answers with
\* a status and a payload of len bytes that Pillow can decode or not; the
\* save then succeeds (writing saved bytes), or fails after writing part of
\* the file ("partial"), Pillow removing the file it had just created
\* ("removed": only a file that did not exist before the save is removed).
Outcome(transport, status, len, decodes, save, saved) ==
    [transport |-> transport, status |-> status, len |-> len,
     decodes |-> decodes, save |-> save, saved |-> saved]

TransportError == Outcome(TRUE, 0, 0, FALSE, "none", 0)

AttemptOutcomes ==
    {TransportError}
    \cup {Outcome(FALSE, st, 4096, TRUE, "none", 0) : st \in {404, 500}}
    \cup {Outcome(FALSE, 200, MinBytes - 1, TRUE, "none", 0)}
    \cup {Outcome(FALSE, 200, MinBytes, FALSE, "none", 0)}
    \cup {Outcome(FALSE, 200, MinBytes, TRUE, sv, 512) : sv \in {"partial", "removed"}}
    \cup {Outcome(FALSE, 200, MinBytes, TRUE, "ok", n) : n \in {MinBytes - 1, 4096}}

download_start(url, file, max_retries) ==
    [url |-> url, max_retries |-> max_retries, attempt |-> 0,
     file |-> file, ret |-> "running", log |-> <<>>]

\* The destination after img.save(filename, 'JPEG', quality=95).
saved_file(st, o) ==
    CASE o.save = "ok" -> Jpeg(st.url, o.saved)
      [] o.save = "removed" /\ st.file.kind = "absent" -> NoFile
      [] OTHER -> PartialFile(st.url, o.saved)

\* A mutant of too_small: only the empty payload is rejected.
too_small_empty(o) == o.len < 1

\* len(content) < 1024
too_small(o) == o.len < MinBytes

\* One iteration of `for attempt in range(max_retries)`, given what the
\* attempt meets; falling out of the loop returns False.
download_attempt(st, o) ==
    IF st.attempt >= st.max_retries
    THEN [st EXCEPT !.ret = "False"]
    ELSE
      LET last == ~(st.attempt < st.max_retries - 1)
          got == Append(st.log, <<"GET", st.attempt>>)
          sleep == <<(<<"sleep", RetryDelayMs>>)>>
          \* `continue`, or the end of the loop body; after the last
          \* iteration control reaches `return False`
          again(log) == [st EXCEPT !.log = log, !.attempt = @ + 1,
                                   !.ret = IF last THEN "False" ELSE "running"]
      IN
      CASE o.transport ->
             again(IF last THEN got ELSE got \o sleep)
        [] ~o.transport /\ o.status # 200 ->
             again(got)
        [] ~o.transport /\ o.status = 200 /\ too_small(o) ->
             again(IF last THEN got ELSE got \o sleep)
        [] ~o.transport /\ o.status = 200 /\ ~too_small(o) /\ ~o.decodes ->
             again(IF last THEN got ELSE got \o sleep)
        [] ~o.transport /\ o.status = 200 /\ ~too_small(o) /\ o.decodes
                        /\ o.save # "ok" ->
             [again(IF last THEN Append(got, <<"save", st.attempt>>)
                    ELSE Append(got, <<"save", st.attempt>>) \o sleep)
                EXCEPT !.file = saved_file(st, o)]
        [] OTHER ->
             [st EXCEPT !.log = Append(got, <<"save", st.attempt>>),
                        !.file = saved_file(st, o),
                        !.ret = "True"]

\* The whole call, given what each attempt meets.
RECURSIVE download_run(_, _)
download_run(st, outs) ==
    IF st.ret # "running" THEN st
    ELSE IF st.attempt >= st.max_retries
         THEN download_attempt(st, TransportError)
         ELSE download_run(download_attempt(st, Head(outs)), Tail(outs))

download_image(url, file, max_retries, outs) ==
    download_run(download_start(url, file, max_retries), outs)

(***************************************************************************)
(* Text: a token is a sequence of characters, a text the sequence of its   *)
(* whitespace-separated tokens (text.split()).                             *)
(***************************************************************************)
DigitChars == <<"0", "1", "2", "3", "4", "5", "6", "7", "8", "9">>
DigitValue(c) == (CHOOSE i \in 1..10 : DigitChars[i] = c) - 1
IsDigit(c) == \E i \in 1..10 : DigitChars[i] = c

RECURSIVE StrNat(_)
StrNat(n) == IF n < 10 THEN <<DigitChars[n + 1]>>
             ELSE StrNat(n \div 10) \o <<DigitChars[(n % 10) + 1]>>
\* str(k)
Str(k) == IF k < 0 THEN <<"-">> \o StrNat(-k) ELSE StrNat(k)

RECURSIVE DecimalValue(_)
DecimalValue(ds) ==
    IF ds = <<>> THEN 0
    ELSE 10 * DecimalValue(SubSeq(ds, 1, Len(ds) - 1)) + DigitValue(ds[Len(ds)])

\* int(token): a ValueError ([ok |-> FALSE]) unless the token is an optional
\* sign followed by decimal digits.
int(tok) ==
    LET signed == tok # <<>> /\ tok[1] \in {"-", "+"}
        body == IF signed THEN Tail(tok) ELSE tok
    IN IF body = <<>> \/ \E i \in DOMAIN body : ~IsDigit(body[i])
       THEN [ok |-> FALSE, val |-> 0]
       ELSE [ok |-> TRUE,
             val |-> IF signed /\ tok[1] = "-" THEN -DecimalValue(body)
                     ELSE DecimalValue(body)]

\* int(text.split()[0]): an IndexError when the text has no token.
leading_int(text) == IF text = <<>> THEN [ok |-> FALSE, val |-> 0] ELSE int(text[1])

(***************************************************************************)
(* File names of a candidate directory, and sorted() on them.              *)
(***************************************************************************)
\* candidate_<n>.jpg, as the pieces the comparison of two names looks at.
candidate_name(n) == <<"candidate_">> \o Str(n) \o <<".jpg">>

\* The code point that decides a comparison at a piece: '.' is 46, the
\* digits are 48..57.
CodePoint(c) == IF IsDigit(c) THEN 48 + DigitValue(c) ELSE IF c = ".jpg" THEN 46 ELSE 99

RECURSIVE StrLess(_, _)
StrLess(a, b) ==
    IF a = <<>> THEN b # <<>>
    ELSE IF b = <<>> THEN FALSE
    ELSE IF CodePoint(a[1]) # CodePoint(b[1]) THEN CodePoint(a[1]) < CodePoint(b[1])
    ELSE StrLess(Tail(a), Tail(b))

\* sorted([f for f in os.listdir(folder) if ...]) for a directory holding
\* candidate_<n>.jpg for the n of listing: the ranks, in the names' order.
RECURSIVE sorted_candidates(_)
sorted_candidates(listing) ==
    IF listing = {} THEN <<>>
    ELSE LET m == CHOOSE x \in listing :
                    \A y \in listing \ {x} : StrLess(candidate_name(x), candidate_name(y))
         IN <<m>> \o sorted_candidates(listing \ {m})

(***************************************************************************)
(* evaluate_best_image, in its two variants: image_tool.py (images: the    *)
(* search results; returns a 0-based index) and evaluate_best.py (a        *)
(* candidate directory; returns the path of a candidate, or None).         *)
(***************************************************************************)
\* The evaluator's answer to an inference call: a text, or an exception
\* with a message (its words).
TextResponse(text) == [kind |-> "text", text |-> text, msg |-> <<>>]
ErrorResponseOf(msg) == [kind |-> "error", text |-> <<>>, msg |-> msg]

\* "500" in str(e) or "Internal" in str(e)
retriable(msg) == \E i \in DOMAIN msg : msg[i] \in {"500", "Internal"}

eval_start(variant, n, listing) ==
    LET files == IF variant = "evaluate_best" THEN sorted_candidates(listing) ELSE <<>>
        count == IF variant = "evaluate_best" THEN Len(files) ELSE n
    IN [variant |-> variant,
        n |-> count,                     \* len(images) / len(candidate_files)
        candidate_files |-> files,
        temp_files |-> <<>>,             \* image_tool: TRUE for temp_<i>.jpg, FALSE for None
        temp |-> [i \in 0..(count - 1) |-> NoFile],   \* what temp_<i>.jpg holds
        uploaded_files |-> <<>>,         \* TRUE for an uploaded file, FALSE for None
        attempt |-> 0,
        best_index |-> IF variant = "evaluate_best" THEN 1 ELSE 0,
        cleaned |-> 0,
        max_retries |-> EvalMaxRetries,
        log |-> <<>>,
        ret |-> 0,
        pc |-> IF variant = "evaluate_best"
               THEN (IF files = <<>> THEN "return" ELSE "upload")
               ELSE (IF count = 0 THEN "upload_done" ELSE "temp")]

ImageUrl(i) == <<1, i + 1>>

\* image_tool.py: one iteration of the temporary downloads.
eval_temp_download(st, outs) ==
    LET i == Len(st.temp_files)
        r == download_image(ImageUrl(i), st.temp[i], TempMaxRetries, outs)
    IN [st EXCEPT !.temp_files = Append(@, r.ret = "True"),
                  !.temp[i] = r.file,
                  !.log = Append(@, <<"temp_download", i>>),
                  !.pc = IF i + 1 = st.n THEN "upload" ELSE "temp"]

\* Whether the next entry of the upload loop has a file to upload.
has_file_to_upload(st) ==
    st.variant = "evaluate_best" \/ st.temp_files[Len(st.uploaded_files) + 1]

\* After the upload loop: time.sleep(2), then the inference loop.
after_uploads(st) ==
    IF Len(st.uploaded_files) = st.n
    THEN [st EXCEPT !.log = Append(@, <<"sleep", PreEvalDelayMs>>),
                    !.pc = IF st.max_retries > 0 THEN "generate" ELSE "cleanup"]
    ELSE st

\* One iteration of the upload loop; ok: genai.upload_file did not raise.
eval_upload(st, ok) ==
    LET j == Len(st.uploaded_files) + 1 IN
    IF ~has_file_to_upload(st)
    THEN after_uploads([st EXCEPT !.uploaded_files = Append(@, FALSE)])
    ELSE IF ok
    THEN after_uploads([st EXCEPT !.uploaded_files = Append(@, TRUE),
                                  !.log = @ \o << <<"upload", j>>, <<"sleep", UploadDelayMs>> >>])
    ELSE IF st.variant = "evaluate_best"
    THEN after_uploads([st EXCEPT !.uploaded_files = Append(@, FALSE),
                                  !.log = Append(@, <<"upload", j>>)])
    ELSE [st EXCEPT !.log = Append(@, <<"upload", j>>), !.pc = "raised"]

\* The index an answer is parsed to, and the default the variant falls back to.
default_index(st) == IF st.variant = "evaluate_best" THEN 1 ELSE 0
\* A mutant of index_valid: the upper end of the range is off by one.
index_valid_loose(st, k) == 0 <= k /\ k <= st.n + 1

index_valid(st, k) ==
    IF st.variant = "evaluate_best" THEN 1 <= k /\ k <= st.n
    ELSE 0 <= k /\ k < st.n

RECURSIVE Pow2(_)
Pow2(k) == IF k = 0 THEN 1 ELSE 2 * Pow2(k - 1)

\* One iteration of `for attempt in range(max_retries)` of the inference loop.
eval_generate(st, o) ==
    LET backoff == IF st.attempt > 0
                   THEN <<(<<"sleep", Pow2(st.attempt) * 1000>>)>> ELSE <<>>
        call == <<"generate", st.attempt>>
        log == (st.log \o backoff) \o <<call>>
        parsed == leading_int(o.text)
        last == ~(st.attempt < st.max_retries - 1)
    IN
    CASE o.kind = "text" /\ parsed.ok /\ index_valid(st, parsed.val) ->
           [st EXCEPT !.log = log, !.best_index = parsed.val, !.pc = "cleanup"]
      [] o.kind = "text" /\ ~(parsed.ok /\ index_valid(st, parsed.val)) ->
           [st EXCEPT !.log = log, !.best_index = default_index(st), !.pc = "cleanup"]
      [] o.kind = "error" /\ retriable(o.msg) /\ ~last ->
           [st EXCEPT !.log = log, !.attempt = @ + 1]
      [] o.kind = "error" /\ retriable(o.msg) /\ last ->
           [st EXCEPT !.log = log, !.attempt = @ + 1,
                      !.best_index = default_index(st), !.pc = "cleanup"]
      [] OTHER ->
           [st EXCEPT !.log = log, !.best_index = default_index(st), !.pc = "cleanup"]

\* The value returned: image_tool.py returns best_index, evaluate_best.py the
\* candidate at best_index - 1 (as its rank; 0 stands for None).
eval_return_value(st) ==
    IF st.variant = "evaluate_best"
    THEN (IF 1 <= st.best_index /\ st.best_index <= Len(st.candidate_files)
          THEN st.candidate_files[st.best_index] ELSE 0)
    ELSE st.best_index

\* The end of the function: image_tool.py removes its temp files; both sleep
\* 3 s and return.
eval_finish(st) ==
    [st EXCEPT !.temp = [i \in DOMAIN st.temp |->
                            IF st.variant = "image_tool" /\ st.temp_files[i + 1]
                            THEN NoFile ELSE st.temp[i]],
               !.log = Append(@, <<"sleep", PostEvalDelayMs>>),
               !.ret = eval_return_value(st),
               !.pc = "return"]

\* One iteration of the cleanup loop over uploaded_files; ok: uf.delete()
\* did not raise.
eval_delete(st, ok) ==
    LET j == st.cleaned + 1 IN
    [st EXCEPT !.cleaned = j,
               !.log = IF st.uploaded_files[j]
                       THEN Append(@, <<"delete", j, IF ok THEN 1 ELSE 0>>) ELSE @]

(***************************************************************************)
(* The selection of the final image in the two main loops.                 *)
(***************************************************************************)
\* A mutant of best_downloaded: the test of the index is inverted.
best_downloaded_other(wanted, entries) ==
    IF \E j \in DOMAIN entries : entries[j] # wanted
    THEN entries[CHOOSE j \in DOMAIN entries :
                    entries[j] # wanted /\ \A h \in 1..(j - 1) : entries[h] = wanted] + 1
    ELSE IF entries # <<>> THEN entries[1] + 1
    ELSE 0

\* image_tool.main: the entry of downloaded_images (the 0-based indices of
\* the candidates that were downloaded and validated, in order) with
\* img_idx = best_index, else the first entry; the result is the candidate's
\* rank (candidate_<rank>.jpg), 0 when nothing was downloaded.
best_downloaded(wanted, entries) ==
    IF \E j \in DOMAIN entries : entries[j] = wanted
    THEN wanted + 1
    ELSE IF entries # <<>> THEN entries[1] + 1
    ELSE 0

(***************************************************************************)
(* The selection of the keywords in main (the same code in the three       *)
(* drivers). A string is the sequence of its characters; an environment    *)
(* variable is set to a string or not set.                                 *)
(***************************************************************************)
EnvUnset == [set |-> FALSE, val |-> <<>>]
EnvValue(s) == [set |-> TRUE, val |-> s]
\* `if value:` for os.environ.get(name, None)
truthy(v) == v.set /\ v.val # <<>>

\* s.split(sep)
RECURSIVE split(_, _)
split(s, sep) ==
    IF \E i \in DOMAIN s : s[i] = sep
    THEN LET i == CHOOSE h \in DOMAIN s : s[h] = sep /\ \A g \in 1..(h - 1) : s[g] # sep
         IN <<SubSeq(s, 1, i - 1)>> \o split(SubSeq(s, i + 1, Len(s)), sep)
    ELSE <<s>>

\* s.strip()
RECURSIVE strip(_)
strip(s) ==
    IF s # <<>> /\ s[1] = " " THEN strip(Tail(s))
    ELSE IF s # <<>> /\ s[Len(s)] = " " THEN strip(SubSeq(s, 1, Len(s) - 1))
    ELSE s

\* The marker id of the header row.
HeaderId == <<"h", "d", "r">>

\* A mutant of drop_invalid: only the rows without id are dropped.
drop_invalid_empty_only(data) == SelectSeq(data, LAMBDA k : k.id # <<>>)

\* [k for k in keywords_data if k['id'] not in [<header>, '']]
drop_invalid(data) == SelectSeq(data, LAMBDA k : k.id \notin {HeaderId, <<>>})

\* a, b = map(int, x.split('-')): a ValueError unless there are exactly two
\* pieces and both are integers.
part_and_num(x) ==
    LET pieces == split(x, "-") IN
    IF Len(pieces) # 2 \/ ~int(pieces[1]).ok \/ ~int(pieces[2]).ok
    THEN [ok |-> FALSE, part |-> 0, num |-> 0]
    ELSE [ok |-> TRUE, part |-> int(pieces[1]).val, num |-> int(pieces[2]).val]

\* A mutant of id_range: the end of the range is left out.
id_range_open(part, start_num, end_num) ==
    {(Str(part) \o <<"-">>) \o Str(n) : n \in start_num..(end_num - 1)}

\* f"{start_part}-{num}" for num in range(start_num, end_num + 1)
id_range(part, start_num, end_num) ==
    {(Str(part) \o <<"-">>) \o Str(n) : n \in start_num..end_num}

\* What one element of PROCESS_IDS adds to selected_ids, or a ValueError.
expand_id_spec(raw) ==
    LET id_spec == strip(raw)
        halves == split(id_spec, ":")
        a == part_and_num(halves[1])
        b == part_and_num(halves[2])
    IN IF Len(halves) = 1 THEN [ok |-> TRUE, ids |-> {id_spec}]
       ELSE IF Len(halves) # 2 \/ ~a.ok \/ ~b.ok THEN [ok |-> FALSE, ids |-> {}]
       ELSE IF a.part # b.part THEN [ok |-> TRUE, ids |-> {}]
       ELSE [ok |-> TRUE, ids |-> id_range(a.part, a.num, b.num)]

\* keywords_data[start_index:end_index]
slice_bound(i, len) == IF i < 0 THEN (IF len + i < 0 THEN 0 ELSE len + i) ELSE Min(i, len)
py_slice(data, start, stop) ==
    SubSeq(data, slice_bound(start, Len(data)) + 1, slice_bound(stop, Len(data)))

\* A mutant of selection_mode: the partition set is looked at first.
selection_mode_parts_first(environ) ==
    IF truthy(environ.PROCESS_PARTS) THEN "parts"
    ELSE IF truthy(environ.PROCESS_IDS) THEN "ids"
    ELSE "index"

\* if process_ids_str: ... elif process_parts_str: ... else: ...
selection_mode(environ) ==
    IF truthy(environ.PROCESS_IDS) THEN "ids"
    ELSE IF truthy(environ.PROCESS_PARTS) THEN "parts"
    ELSE "index"

\* A mutant of partition_of: the whole id is taken for its prefix.
partition_of_whole(id) == id

\* k['id'].split('-')[0]
partition_of(id) == split(id, "-")[1]

select_start(raw, environ) ==
    [raw |-> raw, keywords_data |-> <<>>, environ |-> environ, id_specs |-> <<>>,
     selected_ids |-> {}, filtered_keywords |-> <<>>, pc |-> "load"]

\* main up to the selection: the list is loaded and filtered, then the mode
\* is chosen; the partition and the index modes select at once.
select_load(st) ==
    LET data == drop_invalid(st.raw)
        environ == st.environ
        parts == {strip(p) : p \in {split(environ.PROCESS_PARTS.val, ",")[j] :
                                      j \in DOMAIN split(environ.PROCESS_PARTS.val, ",")}}
        start_idx == int(IF environ.START_INDEX.set THEN environ.START_INDEX.val ELSE Str(0))
        end_idx == int(IF environ.END_INDEX.set THEN environ.END_INDEX.val ELSE Str(Len(data)))
        loaded == [st EXCEPT !.keywords_data = data]
    IN CASE selection_mode(environ) = "ids" ->
              [loaded EXCEPT !.id_specs = split(environ.PROCESS_IDS.val, ","), !.pc = "ids"]
         [] selection_mode(environ) = "parts" ->
              [loaded EXCEPT !.filtered_keywords =
                                 SelectSeq(data, LAMBDA k : partition_of(k.id) \in parts),
                             !.pc = "done"]
         [] OTHER ->
              IF ~start_idx.ok \/ ~end_idx.ok THEN [loaded EXCEPT !.pc = "raised"]
              ELSE [loaded EXCEPT !.filtered_keywords =
                                      py_slice(data, start_idx.val, end_idx.val),
                                  !.pc = "done"]

\* One iteration of `for id_spec in process_ids_str.split(',')`.
select_id_spec(st) ==
    LET r == expand_id_spec(Head(st.id_specs)) IN
    IF ~r.ok THEN [st EXCEPT !.pc = "raised"]
    ELSE [st EXCEPT !.selected_ids = @ \cup r.ids, !.id_specs = Tail(@)]

\* filtered_keywords = [k for k in keywords_data if k['id'] in selected_ids]
select_filter(st) ==
    [st EXCEPT !.filtered_keywords =
                   SelectSeq(st.keywords_data, LAMBDA k : k.id \in st.selected_ids),
               !.pc = "done"]

\* The selection as one call.
RECURSIVE select_run(_)
select_run(st) ==
    CASE st.pc = "load" -> select_run(select_load(st))
      [] st.pc = "ids" /\ st.id_specs # <<>> -> select_run(select_id_spec(st))
      [] st.pc = "ids" /\ st.id_specs = <<>> -> select_filter(st)
      [] OTHER -> st

select_keywords(raw, environ) == select_run(select_start(raw, environ))

SelIdle == [select_start(<<>>, <<>>) EXCEPT !.pc = "idle"]

DownloadIdle == [download_start(<<>>, NoFile, 0) EXCEPT !.ret = "idle"]
EvalIdle == [eval_start("image_tool", 0, {}) EXCEPT !.pc = "idle"]
SearchIdle == [search_start(1) EXCEPT !.pc = "idle"]

(***************************************************************************)
(* The names of a keyword's files.                                         *)
(***************************************************************************)
\* keyword.replace(' ', '_')
slug(keyword) == [i \in DOMAIN keyword |-> IF keyword[i] = " " THEN "_" ELSE keyword[i]]

\* f"{keyword_id}_{keyword.replace(' ', '_')}": the name shared by the final
\* file output/<stem>.jpg and the directory output_candidates/<stem>.
stem(item) == (item.id \o <<"_">>) \o slug(item.keyword_formatted)

(***************************************************************************)
(* fix_corrupted_images: the files of output/ as the tool sees them        *)
(***************************************************************************)
FixMinBytes == 1024
JpegMagic == <<255, 216>>

\* A path of output/: nothing, or a file of some size whose first bytes are
\* head, and which open() can read or not.
Absent == [exists |-> FALSE, size |-> 0, head |-> <<>>, readable |-> FALSE]
OnDisk(size, head, readable) ==
    [exists |-> TRUE, size |-> size, head |-> head, readable |-> readable]

\* A mutant of check_image_validity: the size is not looked at.
check_image_validity_any_size(f) ==
    IF ~f.exists THEN [ok |-> FALSE, reason |-> "File not found"]
    ELSE IF ~f.readable THEN [ok |-> FALSE, reason |-> "Error reading file"]
    ELSE IF SubSeq(f.head, 1, 2) # JpegMagic
    THEN [ok |-> FALSE, reason |-> "Invalid JPEG header"]
    ELSE [ok |-> TRUE, reason |-> "OK"]

check_image_validity(f) ==
    IF ~f.exists THEN [ok |-> FALSE, reason |-> "File not found"]
    ELSE IF f.size < FixMinBytes THEN [ok |-> FALSE, reason |-> "File too small"]
    ELSE IF ~f.readable THEN [ok |-> FALSE, reason |-> "Error reading file"]
    ELSE IF SubSeq(f.head, 1, 2) # JpegMagic
    THEN [ok |-> FALSE, reason |-> "Invalid JPEG header"]
    ELSE [ok |-> TRUE, reason |-> "OK"]

\* str.lower() on the answers typed at the prompt.
lower(s) ==
    [i \in DOMAIN s |-> CASE s[i] = "Y" -> "y" [] s[i] = "N" -> "n" [] OTHER -> s[i]]

\* main up to its first loop: without output/ it returns at once.
fix_start(dir_exists, raw, files) ==
    [keywords_data |-> drop_invalid(raw), i |-> 1,
     corrupted_files |-> <<>>, valid_files |-> <<>>, missing_files |-> <<>>,
     response |-> <<"?">>, j |-> 1, failed |-> {},
     files |-> files, before |-> files,
     pc |-> IF dir_exists THEN "check" ELSE "done"]

\* One iteration of `for item in keywords_data`; after the last one, the
\* prompt when there are corrupted files.
fix_check(st) ==
    IF st.i > Len(st.keywords_data)
    THEN [st EXCEPT !.pc = IF st.corrupted_files # <<>> THEN "ask" ELSE "done"]
    ELSE LET filename == stem(st.keywords_data[st.i]) IN
         IF ~st.files[filename].exists
         THEN [st EXCEPT !.missing_files = Append(@, filename), !.i = @ + 1]
         ELSE IF check_image_validity(st.files[filename]).ok
         THEN [st EXCEPT !.valid_files = Append(@, filename), !.i = @ + 1]
         ELSE [st EXCEPT !.corrupted_files = Append(@, filename), !.i = @ + 1]

\* response = input(...); if response.lower() == 'y': the deletions
fix_answer(st, response) ==
    [st EXCEPT !.response = response,
               !.pc = IF lower(response) = <<"y">> THEN "delete" ELSE "done"]

\* One iteration of the deletions: os.remove inside try/except; it raises
\* when the file is not there any more or when the removal fails.
fix_delete(st, removable) ==
    IF st.j > Len(st.corrupted_files) THEN [st EXCEPT !.pc = "done"]
    ELSE LET filepath == st.corrupted_files[st.j] IN
         IF st.files[filepath].exists /\ removable
         THEN [st EXCEPT !.files[filepath] = Absent, !.j = @ + 1]
         ELSE [st EXCEPT !.failed = @ \cup {filepath}, !.j = @ + 1]

(***************************************************************************)
(* The cooldown of the main loops. The loop of a driver is followed here   *)
(* through the one thing the cooldown depends on: which way each keyword's *)
(* turn leaves the loop body.                                              *)
(***************************************************************************)
CooldownEvery == 10
CooldownMs == 30000

\* main before its loop: the counter (evaluated_count in evaluate_best,
\* processed_count in image_tool) is 0; n keywords were selected.
cool_start(driver, use_gemini_eval, n) ==
    [driver |-> driver, use_gemini_eval |-> use_gemini_eval, n |-> n,
     i |-> 1, count |-> 0, sleeps |-> <<>>, pc |-> "loop"]

\* The ways a turn of evaluate_best.main goes: the two `continue`s, the copy
\* done, the copy failing inside its try, and no usable best image.
EbWays == {"final_exists", "no_folder", "copied", "copy_failed", "no_best"}

\* The ways a turn of image_tool.main goes: the three `continue`s, the copy
\* done, and the copy raising out of main.
ItWays == {"final_exists", "no_images", "no_downloads", "copied", "copy_raised"}

ways(driver) == IF driver = "evaluate_best" THEN EbWays ELSE ItWays

\* The test that ends the loop body.
cooldown_due(st) ==
    /\ st.driver = "image_tool" => st.use_gemini_eval
    /\ st.count > 0
    /\ st.count % CooldownEvery = 0

\* The end of the loop body once the counter is what the turn made it.
cooldown(st) ==
    [st EXCEPT !.sleeps = IF cooldown_due(st) THEN Append(@, CooldownMs) ELSE @,
               !.i = @ + 1]

\* One iteration of `for item in filtered_keywords` that goes the given way.
main_turn(st, way) ==
    CASE way \in {"final_exists", "no_folder", "no_images", "no_downloads"} ->
            [st EXCEPT !.i = @ + 1]
      [] way = "copied" -> cooldown([st EXCEPT !.count = @ + 1])
      [] way \in {"copy_failed", "no_best"} -> cooldown(st)
      [] way = "copy_raised" -> [st EXCEPT !.pc = "aborted"]

CoolIdle == [cool_start("none", FALSE, 0) EXCEPT !.pc = "idle"]
FixIdle == [fix_start(FALSE, <<>>, <<>>) EXCEPT !.pc = "idle"]

\* The variables of the other tools in a specification that leaves them alone.
ToolIdle ==
    /\ cool = CoolIdle
    /\ fixer = FixIdle

\* The pipeline's variables in a specification of a single function.
PipeIdle ==
    /\ keywords = <<>>
    /\ cfg = [driver |-> "none", use_gemini_eval |-> FALSE, num_results |-> 0]
    /\ run = 0
    /\ history = <<>>
    /\ kidx = 0
    /\ output = <<>>
    /\ folders = {}
    /\ candidates = <<>>
    /\ tempfiles = <<>>
    /\ images = <<>>
    /\ best_index = 0
    /\ img_index = 0
    /\ tlog = <<>>

(***************************************************************************)
(* Specification of one call of search_images.                             *)
(***************************************************************************)
\* The page sizes tried for a request: all of 0..10 for the small counts, and
\* for the counts that need many pages the empty page, a single item, what was
\* asked for, and a full page.
PageSizes(st) ==
    IF st.num <= 25 THEN 0..PerRequest
    ELSE {0, 1, results_needed(st), PerRequest}

Responses(st) ==
    {ErrorResponse} \cup {Page(st.request_index + 1, n) : n \in PageSizes(st)}

InitSearch ==
    /\ search \in {search_start(c) : c \in SearchCounts}
    /\ pages = <<>>
    /\ download = DownloadIdle
    /\ outcomes = <<>>
    /\ ev = EvalIdle
    /\ responses = <<>>
    /\ chosen = 0
    /\ downloaded_images = <<>>
    /\ pc = "idle"
    /\ PipeIdle
    /\ sel = SelIdle
    /\ ToolIdle

SearchRequest ==
    /\ search_requests(search)
    /\ \E resp \in Responses(search) :
          /\ search' = search_iter(search, resp)
          /\ pages' = Append(pages, resp)
    /\ UNCHANGED <<downloadVars, evalVars, pipeVars, selVars, toolVars>>

SearchReturn ==
    /\ search.pc = "loop"
    /\ ~search_requests(search)
    /\ search' = search_iter(search, ErrorResponse)
    /\ UNCHANGED <<pages, downloadVars, evalVars, pipeVars, selVars, toolVars>>

NextSearch == SearchRequest \/ SearchReturn

SpecSearch == InitSearch /\ [][NextSearch]_vars

(***************************************************************************)
(* Specification of one call of download_image.                            *)
(***************************************************************************)
TheUrl == <<1, 1>>
OtherUrl == <<1, 2>>

\* The destination before the call: nothing, or what an earlier call left.
EarlierFiles ==
    {NoFile, Jpeg(TheUrl, 4096), Jpeg(OtherUrl, 4096), PartialFile(OtherUrl, 512)}

InitDownload ==
    /\ download \in {download_start(TheUrl, f, m) : f \in EarlierFiles, m \in 0..MaxRetries}
    /\ outcomes = <<>>
    /\ search = SearchIdle
    /\ pages = <<>>
    /\ ev = EvalIdle
    /\ responses = <<>>
    /\ chosen = 0
    /\ downloaded_images = <<>>
    /\ pc = "idle"
    /\ PipeIdle
    /\ sel = SelIdle
    /\ ToolIdle

DownloadAttempt ==
    /\ download.ret = "running"
    /\ download.attempt < download.max_retries
    /\ \E o \in AttemptOutcomes :
          /\ download' = download_attempt(download, o)
          /\ outcomes' = Append(outcomes, o)
    /\ UNCHANGED <<searchVars, evalVars, pipeVars, selVars, toolVars>>

DownloadReturn ==
    /\ download.ret = "running"
    /\ download.attempt >= download.max_retries
    /\ download' = download_attempt(download, TransportError)
    /\ UNCHANGED <<outcomes, searchVars, evalVars, pipeVars, selVars, toolVars>>

NextDownload == DownloadAttempt \/ DownloadReturn

SpecDownload == InitDownload /\ [][NextDownload]_vars

(***************************************************************************)
(* Specification of one evaluation: evaluate_best_image of either variant, *)
(* then its main loop's copy of the chosen candidate to the final path.    *)
(***************************************************************************)
\* The directories tried: every set of ranks up to SmallListing (gaps
\* included, and the empty directory), and the full directories
\* candidate_1..candidate_n up to MaxListing.
Listings ==
    (SUBSET (1..SmallListing)) \cup {1..n : n \in (SmallListing + 1)..MaxListing}

Banana == <<"b", "a", "n", "a", "n", "a">>

\* The answers tried for n candidates: the empty text, a word, a number
\* followed by a full stop, every integer of -1..n+1 alone, and an integer
\* followed by more words.
EvalTexts(n) ==
    {<<>>, <<Banana>>, <<Str(2) \o <<".">> >>, <<Str(2), Banana>>, <<Str(1), Str(2)>>}
    \cup {<<Str(k)>> : k \in ((-1)..(n + 1)) \cup {7}}

EvalErrors ==
    {<<"500", "Internal", "Server", "Error">>, <<"Internal", "error">>,
     <<"503", "Service", "Unavailable">>, <<"Connection", "reset">>}

EvalResponses(n) ==
    {TextResponse(t) : t \in EvalTexts(n)} \cup {ErrorResponseOf(m) : m \in EvalErrors}

\* Failures of uploads and deletes are tried for the small inputs.
CallOutcomes(st) == IF st.n <= SmallListing THEN BOOLEAN ELSE {TRUE}

OkBig == Outcome(FALSE, 200, MinBytes, TRUE, "ok", 4096)
SavePartial == Outcome(FALSE, 200, MinBytes, TRUE, "partial", 512)
TempScripts == {<<a, b>> : a \in {TransportError, OkBig, SavePartial}, b \in {TransportError, OkBig}}

\* The 0-based indices of a set, in increasing order.
RECURSIVE Ascending(_)
Ascending(S) ==
    IF S = {} THEN <<>>
    ELSE LET m == CHOOSE x \in S : \A y \in S : x <= y IN <<m>> \o Ascending(S \ {m})

InitEval ==
    /\ ev \in {eval_start("evaluate_best", 0, L) : L \in Listings}
              \cup {eval_start("image_tool", n, {}) : n \in 1..SmallListing}
    /\ responses = <<>>
    /\ chosen = 0
    /\ downloaded_images = <<>>
    /\ pc = "evaluating"
    /\ PipeIdle
    /\ sel = SelIdle
    /\ ToolIdle
    /\ search = SearchIdle
    /\ pages = <<>>
    /\ download = DownloadIdle
    /\ outcomes = <<>>

EvalTempDownload ==
    /\ ev.pc = "temp"
    /\ \E outs \in TempScripts : ev' = eval_temp_download(ev, outs)
    /\ UNCHANGED <<responses, chosen, downloaded_images, pc, searchVars, downloadVars, pipeVars, selVars, toolVars>>

EvalUpload ==
    /\ ev.pc = "upload"
    /\ \E ok \in (IF has_file_to_upload(ev) THEN CallOutcomes(ev) ELSE {TRUE}) :
          ev' = eval_upload(ev, ok)
    /\ UNCHANGED <<responses, chosen, downloaded_images, pc, searchVars, downloadVars, pipeVars, selVars, toolVars>>

EvalGenerate ==
    /\ ev.pc = "generate"
    /\ ev.attempt < ev.max_retries
    /\ \E o \in EvalResponses(ev.n) :
          /\ ev' = eval_generate(ev, o)
          /\ responses' = Append(responses, o)
    /\ UNCHANGED <<chosen, downloaded_images, pc, searchVars, downloadVars, pipeVars, selVars, toolVars>>

EvalDelete ==
    /\ ev.pc = "cleanup"
    /\ ev.cleaned < Len(ev.uploaded_files)
    /\ \E ok \in (IF ev.uploaded_files[ev.cleaned + 1] THEN CallOutcomes(ev) ELSE {TRUE}) :
          ev' = eval_delete(ev, ok)
    /\ UNCHANGED <<responses, chosen, downloaded_images, pc, searchVars, downloadVars, pipeVars, selVars, toolVars>>

EvalFinish ==
    /\ ev.pc = "cleanup"
    /\ ev.cleaned = Len(ev.uploaded_files)
    /\ ev' = eval_finish(ev)
    /\ UNCHANGED <<responses, chosen, downloaded_images, pc, searchVars, downloadVars, pipeVars, selVars, toolVars>>

\* image_tool.main: an exception of genai.upload_file leaves
\* evaluate_best_image and main.
EvalRaised ==
    /\ ev.pc = "raised"
    /\ pc = "evaluating"
    /\ pc' = "aborted"
    /\ UNCHANGED <<ev, responses, chosen, downloaded_images, searchVars, downloadVars, pipeVars, selVars, toolVars>>

\* evaluate_best.main: copy the returned candidate, inside try/except.
CopyBestImage ==
    /\ ev.pc = "return" /\ ev.variant = "evaluate_best"
    /\ pc = "evaluating"
    /\ \E copy_ok \in BOOLEAN :
          chosen' = IF ev.ret # 0 /\ copy_ok THEN ev.ret ELSE 0
    /\ pc' = "next"
    /\ UNCHANGED <<ev, responses, downloaded_images, searchVars, downloadVars, pipeVars, selVars, toolVars>>

\* image_tool.main: the candidates are downloaded after the evaluation
\* (downloaded: the indices that were downloaded and validated); the entry
\* for best_index, or else the first, is copied; shutil.copy2 is not guarded.
CopyBestDownloaded ==
    /\ ev.pc = "return" /\ ev.variant = "image_tool"
    /\ pc = "evaluating"
    /\ \E downloaded \in SUBSET (0..(ev.n - 1)), copy_ok \in BOOLEAN :
          LET best == best_downloaded(ev.ret, Ascending(downloaded)) IN
          /\ downloaded_images' = Ascending(downloaded)
          /\ chosen' = IF copy_ok THEN best ELSE 0
          /\ pc' = IF best # 0 /\ ~copy_ok THEN "aborted" ELSE "next"
    /\ UNCHANGED <<ev, responses, searchVars, downloadVars, pipeVars, selVars, toolVars>>

NextEval ==
    \/ EvalTempDownload \/ EvalUpload \/ EvalGenerate \/ EvalDelete \/ EvalFinish
    \/ EvalRaised \/ CopyBestImage \/ CopyBestDownloaded

SpecEval == InitEval /\ [][NextEval]_vars

(***************************************************************************)
(* The three drivers' main loops over the keyword list and the file system.*)
(***************************************************************************)
\* os.path.exists(final_filename)
final_exists(item) == output[stem(item)].kind # "absent"

\* [f for f in os.listdir(keyword_folder) if f.endswith('.jpg')], as ranks
existing_images(item) ==
    {n \in DOMAIN candidates[stem(item)] : candidates[stem(item)][n].kind # "absent"}

\* image_tool.main: the keyword is skipped when its final file exists.
it_skips(item) == final_exists(item)

\* download_images.main: the keyword is skipped when its directory exists and
\* holds at least num_results .jpg files.
di_skips(item) ==
    /\ stem(item) \in folders
    /\ Cardinality(existing_images(item)) >= cfg.num_results

\* A mutant of eb_skips: the test of the final file is left out.
eb_skips_folder_only(item) == stem(item) \notin folders

\* evaluate_best.main: the keyword is skipped when its final file exists, or
\* when it has no candidate directory.
eb_skips(item) == final_exists(item) \/ stem(item) \notin folders

skips(item) ==
    CASE cfg.driver = "image_tool" -> it_skips(item)
      [] cfg.driver = "download_images" -> di_skips(item)
      [] OTHER -> eb_skips(item)

\* search_images as one call: resps are the provider's answers, in order.
RECURSIVE search_run(_, _)
search_run(st, resps) ==
    IF st.pc # "loop" THEN st
    ELSE IF search_requests(st) /\ resps # <<>>
    THEN search_run(search_iter(st, Head(resps)), Tail(resps))
    ELSE search_iter(st, ErrorResponse)

search_images(num, resps) == search_run(search_start(num), resps)

\* evaluate_best_image as one call; env: what its collaborators do (the
\* temporary downloads' outcomes per image, whether uploads and deletes
\* succeed, the evaluator's answers per attempt).
eval_step(st, env) ==
    CASE st.pc = "temp" -> eval_temp_download(st, env.temps[Len(st.temp_files) + 1])
      [] st.pc = "upload" -> eval_upload(st, env.upload)
      [] st.pc = "generate" -> eval_generate(st, env.answers[st.attempt + 1])
      [] st.pc = "cleanup" /\ st.cleaned < Len(st.uploaded_files) ->
           eval_delete(st, env.delete)
      [] st.pc = "cleanup" /\ st.cleaned = Len(st.uploaded_files) -> eval_finish(st)
      [] OTHER -> st

\* The steps are taken one after another, each on the state the one before
\* it left (a state is computed once, then handed on).
RECURSIVE eval_run(_, _)
eval_run(st, env) ==
    IF st.pc \notin {"temp", "upload", "generate", "cleanup"} THEN st
    ELSE CHOOSE r \in {eval_run(x, env) : x \in {eval_step(st, env)}} : TRUE

\* shutil.copy2(src, dst): the copy, or an exception that leaves dst as it
\* was or partly written.
copy2(src, dst, how) ==
    CASE how = "ok" -> src
      [] how = "partial" -> PartialFile(src.url, 512)
      [] OTHER -> dst

\* After download_image returned ret for a candidate: the file is removed
\* when it is smaller than MinBytes or Image.verify() raises.
validated(r, verify_ok) == r.ret = "True" /\ r.file.len >= MinBytes /\ verify_ok
\* A mutant of after_validation: the file is removed when it passed.
after_validation_inverted(r, verify_ok) ==
    IF validated(r, verify_ok) THEN NoFile ELSE r.file

after_validation(r, verify_ok) ==
    IF r.ret = "True" /\ ~validated(r, verify_ok) THEN NoFile ELSE r.file

(***************************************************************************)
(* Specification of the pipeline: runs of the three drivers, one after the  *)
(* other, over one keyword list and one file system.                       *)
(***************************************************************************)
\* keywords.json: records with distinct ids; filtered_keywords is a slice
\* keywords_data[start_index:end_index] of it.
Record(k) == [id |-> <<"1", "-">> \o Str(k), keyword_formatted |-> <<"a", " ", "b">>]
keywords_data == [k \in 1..MaxKeywords |-> Record(k)]

Stems == {stem(keywords_data[k]) : k \in 1..MaxKeywords}

KeywordLists ==
    {SubSeq(keywords_data, a, b) : a \in 1..MaxKeywords, b \in 1..MaxKeywords} \ {<<>>}

Configs ==
    {[driver |-> "image_tool", use_gemini_eval |-> g, num_results |-> n] :
        g \in BOOLEAN, n \in 1..MaxResults}
    \cup {[driver |-> "download_images", use_gemini_eval |-> FALSE, num_results |-> n] :
            n \in 1..MaxResults}
    \cup {[driver |-> "evaluate_best", use_gemini_eval |-> FALSE, num_results |-> 1]}

\* The provider's answers to the requests of one search.
SearchScripts(num) ==
    {[p \in 1..requests_needed(num) |->
        IF f[p] < 0 THEN ErrorResponse ELSE Page(p, f[p])] :
     f \in [1..requests_needed(num) -> (-1)..num]}

OkSmall == Outcome(FALSE, 200, MinBytes, TRUE, "ok", MinBytes - 1)
DownloadMaxRetries == 3
DownloadScripts ==
    {<<a, b, b>> : a \in {TransportError, SavePartial, OkBig, OkSmall},
                   b \in {TransportError, OkBig}}

Error500 == ErrorResponseOf(<<"500", "Internal", "Server", "Error">>)
PipeAnswers(n) ==
    {<<TextResponse(<<Str(k)>>)>> : k \in 0..(n + 1)}
    \cup {<<TextResponse(<<Banana>>)>>, <<ErrorResponseOf(<<"Connection", "reset">>)>>,
          <<Error500, TextResponse(<<Str(1)>>)>>, <<Error500, Error500, Error500>>}
EvalEnvs(n) ==
    {[temps |-> [i \in 1..n |-> t], upload |-> u, answers |-> a, delete |-> d] :
        t \in {<<OkBig, OkBig>>, <<TransportError, TransportError>>},
        u \in BOOLEAN, d \in BOOLEAN, a \in PipeAnswers(n)}

CopyOutcomes == {"ok", "fail", "partial"}

Item == keywords[kidx]

\* The number of calls of one kind that a function's log holds.
calls(log, what) == Len(SelectSeq(log, LAMBDA e : e[1] = what))

TurnStart ==
    /\ images' = <<>>
    /\ best_index' = 0
    /\ img_index' = 0
    /\ tlog' = <<>>
    /\ downloaded_images' = <<>>
    /\ chosen' = 0

Init ==
    /\ keywords \in KeywordLists
    /\ cfg \in Configs
    /\ run = 1
    /\ history = <<>>
    /\ kidx = 1
    /\ pc = "check"
    /\ output = [s \in Stems |-> NoFile]
    /\ folders = {}
    /\ candidates = [s \in Stems |-> [n \in 1..MaxResults |-> NoFile]]
    /\ tempfiles = [i \in 0..(MaxResults - 1) |-> NoFile]
    /\ images = <<>>
    /\ best_index = 0
    /\ img_index = 0
    /\ tlog = <<>>
    /\ downloaded_images = <<>>
    /\ chosen = 0
    /\ ev = EvalIdle
    /\ responses = <<>>
    /\ search = SearchIdle
    /\ pages = <<>>
    /\ download = DownloadIdle
    /\ outcomes = <<>>
    /\ sel = SelIdle
    /\ ToolIdle

\* The head of the loop body: the driver's skip test, then os.makedirs of the
\* keyword's directory (image_tool.main, download_images.main).
CheckKeyword ==
    /\ pc = "check"
    /\ IF skips(Item)
       THEN /\ pc' = "end"
            /\ tlog' = << <<"skip">> >>
            /\ UNCHANGED folders
       ELSE /\ pc' = IF cfg.driver = "evaluate_best" THEN "evaluate" ELSE "search"
            /\ folders' = IF cfg.driver = "evaluate_best" THEN folders
                          ELSE folders \cup {stem(Item)}
            /\ UNCHANGED tlog
    /\ UNCHANGED <<runVars, output, candidates, tempfiles, images, best_index, img_index,
                   searchVars, downloadVars, selVars, toolVars, ev, responses, chosen, downloaded_images>>

\* images = search_images(keyword, num=num_results, ...); `continue` when
\* there are none; image_tool.main without the evaluator takes index 0.
SearchKeyword ==
    /\ pc = "search"
    /\ \E resps \in SearchScripts(cfg.num_results) :
          LET r == search_images(cfg.num_results, resps) IN
          /\ images' = r.all_images
          /\ tlog' = Append(tlog, <<"search", Len(r.all_images), calls(r.log, "GET")>>)
          /\ pc' = IF r.all_images = <<>> THEN "end"
                   ELSE IF cfg.driver = "image_tool" /\ cfg.use_gemini_eval THEN "evaluate"
                   ELSE "download"
    /\ UNCHANGED <<runVars, fs, best_index, img_index,
                   searchVars, downloadVars, selVars, toolVars, ev, responses, chosen, downloaded_images>>

\* image_tool.main: best_index = evaluate_best_image(images, keyword); an
\* exception of the call leaves main.
EvaluateImages ==
    /\ pc = "evaluate"
    /\ cfg.driver = "image_tool"
    /\ \E env \in EvalEnvs(Len(images)) :
          LET st == eval_start("image_tool", Len(images), {})
              r == eval_run([st EXCEPT !.temp = [i \in DOMAIN st.temp |-> tempfiles[i]]], env)
          IN
          /\ tempfiles' = [i \in DOMAIN tempfiles |->
                             IF i \in DOMAIN r.temp THEN r.temp[i] ELSE tempfiles[i]]
          /\ tlog' = Append(tlog, <<"evaluate", Len(images), calls(r.log, "generate")>>)
          /\ IF r.pc = "raised"
             THEN pc' = "aborted" /\ UNCHANGED best_index
             ELSE pc' = "download" /\ best_index' = r.ret
    /\ UNCHANGED <<runVars, output, folders, candidates, images, img_index,
                   searchVars, downloadVars, selVars, toolVars, ev, responses, chosen, downloaded_images>>

\* evaluate_best.main: best_image_path = evaluate_best_image(keyword_folder,
\* ...), then the copy to the final path inside try/except.
EvaluateFolder ==
    /\ pc = "evaluate"
    /\ cfg.driver = "evaluate_best"
    /\ \E env \in EvalEnvs(Cardinality(existing_images(Item))), how \in CopyOutcomes :
          LET r == eval_run(eval_start("evaluate_best", 0, existing_images(Item)), env) IN
          /\ tlog' = Append(tlog, <<"evaluate", r.n, calls(r.log, "generate")>>)
          /\ IF r.ret # 0
             THEN /\ output' = [output EXCEPT ![stem(Item)] =
                                   copy2(candidates[stem(Item)][r.ret], @, how)]
                  /\ chosen' = IF how = "ok" THEN r.ret ELSE 0
             ELSE UNCHANGED <<output, chosen>>
    /\ pc' = "end"
    /\ UNCHANGED <<runVars, folders, candidates, tempfiles, images, best_index, img_index,
                   searchVars, downloadVars, selVars, toolVars, ev, responses, downloaded_images>>

\* One iteration of the download loop: download_image to candidate_<rank>.jpg,
\* then the validation of the written file; after the last one, image_tool.main
\* goes on to the copy unless nothing was downloaded.
DownloadCandidate ==
    /\ pc = "download"
    /\ \E outs \in DownloadScripts, verify_ok \in BOOLEAN :
          LET rank == img_index + 1
              r == download_image(images[rank], candidates[stem(Item)][rank],
                                  DownloadMaxRetries, outs)
              kept == IF validated(r, verify_ok)
                      THEN Append(downloaded_images, img_index) ELSE downloaded_images
          IN
          /\ candidates' = [candidates EXCEPT ![stem(Item)][rank] =
                               after_validation(r, verify_ok)]
          /\ downloaded_images' = kept
          /\ tlog' = Append(tlog, <<"download", rank, calls(r.log, "GET")>>)
          /\ img_index' = rank
          /\ pc' = IF rank < Len(images) THEN "download"
                   ELSE IF cfg.driver = "image_tool" /\ kept # <<>> THEN "copy"
                   ELSE "end"
    /\ UNCHANGED <<runVars, output, folders, tempfiles, images, best_index,
                   searchVars, downloadVars, selVars, toolVars, ev, responses, chosen>>

\* image_tool.main: the selected candidate is copied to the final path; an
\* exception of shutil.copy2 leaves main.
CopyBest ==
    /\ pc = "copy"
    /\ \E how \in CopyOutcomes :
          LET best == best_downloaded(best_index, downloaded_images) IN
          /\ output' = [output EXCEPT ![stem(Item)] =
                           copy2(candidates[stem(Item)][best], @, how)]
          /\ chosen' = IF how = "ok" THEN best ELSE 0
          /\ tlog' = Append(tlog, <<"copy", best>>)
          /\ pc' = IF how = "ok" THEN "end" ELSE "aborted"
    /\ UNCHANGED <<runVars, folders, candidates, tempfiles, images, best_index, img_index,
                   searchVars, downloadVars, selVars, toolVars, ev, responses, downloaded_images>>

\* NextKeyword with the loop staying on its item.
NextKeywordAgain ==
    /\ pc = "end"
    /\ kidx' = kidx
    /\ pc' = "check"
    /\ TurnStart
    /\ UNCHANGED <<keywords, cfg, run, history, fs,
                   searchVars, downloadVars, selVars, toolVars, ev, responses>>

\* The end of the loop body: the next item, or the end of main.
NextKeyword ==
    /\ pc = "end"
    /\ IF kidx < Len(keywords)
       THEN kidx' = kidx + 1 /\ pc' = "check"
       ELSE kidx' = kidx /\ pc' = "done"
    /\ TurnStart
    /\ UNCHANGED <<keywords, cfg, run, history, fs,
                   searchVars, downloadVars, selVars, toolVars, ev, responses>>

\* A driver is started again on the same keyword list and file system.
NextRun ==
    /\ pc \in {"done", "aborted"}
    /\ run < MaxRuns
    /\ \E c \in Configs : cfg' = c
    /\ run' = run + 1
    /\ history' = Append(history, [cfg |-> cfg, completed |-> pc = "done"])
    /\ kidx' = 1
    /\ pc' = "check"
    /\ TurnStart
    /\ UNCHANGED <<keywords, fs, searchVars, downloadVars, selVars, toolVars, ev, responses>>

Next ==
    \/ CheckKeyword \/ SearchKeyword \/ EvaluateImages \/ EvaluateFolder
    \/ DownloadCandidate \/ CopyBest \/ NextKeyword \/ NextRun

Spec == Init /\ [][Next]_vars

\* A started driver goes on: main is one thread whose statements run one
\* after another, and a call it makes returns or raises (requests.get is
\* given timeout=10; the sleeps are finite; the evaluator's client is taken
\* to answer). Whether a driver is started again is up to the user.
Step ==
    \/ CheckKeyword \/ SearchKeyword \/ EvaluateImages \/ EvaluateFolder
    \/ DownloadCandidate \/ CopyBest \/ NextKeyword

\* One run of a driver, started on a fresh file system or on one in which
\* every keyword has its candidates (download_images.main has run).
InitRun ==
    /\ keywords \in KeywordLists
    /\ cfg \in Configs
    /\ run = 1
    /\ history = <<>>
    /\ kidx = 1
    /\ pc = "check"
    /\ output = [s \in Stems |-> NoFile]
    /\ \E stored \in BOOLEAN :
          /\ folders = IF stored THEN Stems ELSE {}
          /\ candidates = [s \in Stems |-> [n \in 1..MaxResults |->
                              IF stored THEN Jpeg(<<1, n>>, 4096) ELSE NoFile]]
    /\ tempfiles = [i \in 0..(MaxResults - 1) |-> NoFile]
    /\ images = <<>>
    /\ best_index = 0
    /\ img_index = 0
    /\ tlog = <<>>
    /\ downloaded_images = <<>>
    /\ chosen = 0
    /\ ev = EvalIdle
    /\ responses = <<>>
    /\ search = SearchIdle
    /\ pages = <<>>
    /\ download = DownloadIdle
    /\ outcomes = <<>>
    /\ sel = SelIdle
    /\ ToolIdle

FairSpec == InitRun /\ [][Step]_vars /\ WF_vars(Step)

(***************************************************************************)
(* Specification of the selection of the keywords in main.                 *)
(***************************************************************************)
Id(part, num) == (Str(part) \o <<"-">>) \o Str(num)
Rec(id, keyword) == [id |-> id, keyword_formatted |-> <<keyword>>]

\* The lists tried: a header row and the ids 1-1 .. 1-MaxSeq, 2-1 in order;
\* a list out of order in which two records share an id; a list with a row
\* without id.
RawLists ==
    {<<Rec(HeaderId, "k")>> \o [n \in 1..MaxSeq |-> Rec(Id(1, n), "a")] \o <<Rec(Id(2, 1), "b")>>,
     <<Rec(Id(1, 2), "a"), Rec(Id(1, 1), "b"), Rec(Id(2, 1), "c"), Rec(Id(1, 2), "d")>>,
     <<Rec(<<>>, "k"), Rec(Id(2, 1), "a"), Rec(Id(2, 2), "b")>>}

Comma == <<",">>
Colon == <<":">>

\* The values of PROCESS_IDS tried.
IdSpecStrings ==
    {<<>>,
     Id(1, 2),
     Id(1, 1) \o Comma \o Id(2, 1),
     Id(1, 1) \o Colon \o Id(1, MaxSeq),
     Id(1, MaxSeq) \o Colon \o Id(1, 1),
     Id(2, 1) \o Colon \o Id(2, 1),
     Id(1, 2) \o Colon \o Id(1, 9),
     Id(1, 2) \o Colon \o Id(2, 1) \o Comma \o Id(1, 1),
     <<" ">> \o Id(1, 1) \o <<" ">> \o Comma \o <<" ">> \o Id(1, 2) \o Colon \o Id(1, 3),
     Id(9, 9),
     Id(1, 1) \o Colon \o Str(2)}

\* The values of PROCESS_PARTS tried.
PartStrings ==
    {<<>>, Str(1), Str(2), Str(1) \o Comma \o <<" ">> \o Str(2), Str(3)}

IndexValues == {EnvUnset} \cup {EnvValue(Str(i)) : i \in 0..MaxIndex}

Environs ==
    [PROCESS_IDS : {EnvUnset} \cup {EnvValue(s) : s \in IdSpecStrings},
     PROCESS_PARTS : {EnvUnset} \cup {EnvValue(s) : s \in PartStrings},
     START_INDEX : IndexValues,
     END_INDEX : IndexValues]

InitSelect ==
    /\ sel \in {select_start(raw, environ) : raw \in RawLists, environ \in Environs}
    /\ search = SearchIdle
    /\ pages = <<>>
    /\ download = DownloadIdle
    /\ outcomes = <<>>
    /\ ev = EvalIdle
    /\ responses = <<>>
    /\ chosen = 0
    /\ downloaded_images = <<>>
    /\ pc = "idle"
    /\ PipeIdle
    /\ ToolIdle

SelectLoad ==
    /\ sel.pc = "load"
    /\ sel' = select_load(sel)
    /\ UNCHANGED <<searchVars, downloadVars, evalVars, pipeVars, toolVars>>

SelectIdSpec ==
    /\ sel.pc = "ids"
    /\ sel.id_specs # <<>>
    /\ sel' = select_id_spec(sel)
    /\ UNCHANGED <<searchVars, downloadVars, evalVars, pipeVars, toolVars>>

SelectFilter ==
    /\ sel.pc = "ids"
    /\ sel.id_specs = <<>>
    /\ sel' = select_filter(sel)
    /\ UNCHANGED <<searchVars, downloadVars, evalVars, pipeVars, toolVars>>

NextSelect == SelectLoad \/ SelectIdSpec \/ SelectFilter

SpecSelect == InitSelect /\ [][NextSelect]_vars

(***************************************************************************)
(* What the claims about search_images read off a call.                    *)
(***************************************************************************)
IsGet(e) == e[1] = "GET"
Gets(log) == SelectSeq(log, IsGet)

RECURSIVE ItemsOf(_)
ItemsOf(ps) ==
    IF ps = <<>> THEN <<>> ELSE ItemsOf(SubSeq(ps, 1, Len(ps) - 1)) \o ps[Len(ps)].items

BadPage(resp) == ~resp.ok \/ resp.items = <<>>

\* Every answer so far held at least as many items as its request asked for.
AllFull ==
    \A i \in DOMAIN pages :
        pages[i].ok /\ Len(pages[i].items) >= Gets(search.log)[i][3]

\* C8: with a provider that returns a full page for every request, a call for
\* c results makes exactly ceil(min(c,100)/10) requests, the i-th one with
\* start offset 10*(i-1)+1, asking for min(10, min(c,100) - 10*(i-1)) results.
C8_PaginationArithmetic ==
    (search.pc = "return" /\ AllFull) =>
        LET m == IF search.num <= 100 THEN search.num ELSE 100
            n == CHOOSE k \in 0..m : 10 * k >= m /\ 10 * (k - 1) < m
        IN Gets(search.log) =
             [i \in 1..n |->
                <<"GET", 10 * (i - 1) + 1,
                  IF m - 10 * (i - 1) < 10 THEN m - 10 * (i - 1) ELSE 10>>]

C8_Witness ==
    /\ search.pc = "return" /\ AllFull
    /\ search.num = 25
    /\ Gets(search.log) = << <<"GET", 1, 10>>, <<"GET", 11, 10>>, <<"GET", 21, 5>> >>

\* C9 (the claim as stated): whatever the provider's pages hold (0..10 items
\* each, whatever was asked for), the returned list has at most c items and
\* lists the items in the provider's order.
C9_LengthBound ==
    search.pc = "return" =>
        /\ Len(search.all_images) <= search.num
        /\ search.all_images = ItemsOf(pages)

\* C10: a page that fails or is empty ends the call: it is the last page
\* requested, and the call returns exactly the items of the pages before it.
C10_PartialList ==
    \A j \in DOMAIN pages :
        BadPage(pages[j]) =>
            /\ j = Len(pages)
            /\ search.pc = "return"
            /\ Len(Gets(search.log)) = j
            /\ search.all_images = ItemsOf(SubSeq(pages, 1, j - 1))

C10_Witness ==
    /\ search.pc = "return"
    /\ Len(pages) = 3
    /\ ~pages[3].ok
    /\ Len(search.all_images) = 20

(***************************************************************************)
(* Claims about download_image.                                            *)
(***************************************************************************)
\* C2 (the claim as stated): (a) when the call returns False no file exists
\* at the destination, (b) when it returns True the destination holds a
\* complete JPEG written by this call from the image fetched from url.
C2_NoFileOnFailure ==
    /\ download.ret = "False" => download.file.kind = "absent"
    /\ download.ret = "True" =>
          /\ download.file.kind = "jpeg"
          /\ download.file.url = download.url
          /\ download.log # <<>> /\ download.log[Len(download.log)][1] = "save"

(***************************************************************************)
(* Claims about the evaluator-backed selection.                            *)
(***************************************************************************)
\* The leading token of a text is the integer k.
LeadingIs(text, k) == text # <<>> /\ text[1] = Str(k)
\* The leading token of a text is an integer of 1..n.
InRange(text, n) == \E k \in 1..n : LeadingIs(text, k)

\* The rank of the candidate the selector has chosen, and of the first one.
SelectedRank ==
    IF ev.variant = "evaluate_best"
    THEN (IF ev.best_index \in DOMAIN ev.candidate_files
          THEN ev.candidate_files[ev.best_index] ELSE 0)
    ELSE ev.best_index + 1
FirstRank == IF ev.variant = "evaluate_best" THEN ev.candidate_files[1] ELSE 1

GenerateCalls == Len(SelectSeq(ev.log, LAMBDA e : e[1] = "generate"))

\* C4: an answer whose leading token is not an integer of 1..N (no token, a
\* word, an integer out of range) ends the evaluation: it is the last
\* inference call, the selector's choice is the first candidate, and nothing
\* is raised.
C4_Fallback ==
    \A i \in DOMAIN responses :
        (responses[i].kind = "text" /\ ~InRange(responses[i].text, ev.n)) =>
            /\ i = Len(responses)
            /\ GenerateCalls = i
            /\ ev.pc \in {"cleanup", "return"}
            /\ SelectedRank = FirstRank
            /\ ev.pc = "return" =>
                  ev.ret = (IF ev.variant = "evaluate_best" THEN FirstRank ELSE 0)

C4_Witness ==
    /\ ev.pc = "return" /\ ev.n = 3 /\ ev.variant = "evaluate_best"
    /\ Len(responses) = 2
    /\ responses[2] = TextResponse(<<Str(7)>>)
    /\ ev.ret = 1

\* All of candidate_1.jpg .. candidate_N.jpg are there to choose from: the
\* directory holds exactly these (evaluate_best), every candidate was
\* downloaded and validated (image_tool).
AllCandidatesPresent ==
    IF ev.variant = "evaluate_best"
    THEN {ev.candidate_files[j] : j \in DOMAIN ev.candidate_files} = 1..ev.n
    ELSE downloaded_images = [j \in 1..ev.n |-> j - 1]

\* C5 (the claim as stated): with N candidates candidate_1..candidate_N, when
\* the answer's leading token is an integer k of 1..N, the candidate copied
\* to the final path is candidate_<k>.jpg.
C5_OneBased ==
    (pc # "evaluating" /\ chosen # 0 /\ responses # <<>> /\ AllCandidatesPresent) =>
        \A k \in 1..ev.n :
            LeadingIs(responses[Len(responses)].text, k) => chosen = k

(***************************************************************************)
(* What the claims about the drivers read off a run.                       *)
(***************************************************************************)
\* A call of a collaborator for the current keyword: a search, an
\* evaluation (uploads, inference) or a download.
IsRequest(e) == e[1] \in {"search", "evaluate", "download"}
Requests(log) == SelectSeq(log, IsRequest)

\* The candidate directory of the item holds at least the target count of
\* .jpg files.
Sufficient(item) ==
    /\ stem(item) \in folders
    /\ Cardinality({n \in DOMAIN candidates[stem(item)] :
                       candidates[stem(item)][n].kind # "absent"}) >= cfg.num_results

\* The run is a repetition of the run before it, which ran to its end.
RepeatsCompleteRun ==
    /\ run >= 2
    /\ history[run - 1] = [cfg |-> cfg, completed |-> TRUE]
    /\ cfg.driver \in {"image_tool", "download_images"}

\* C1 (the claim as stated): during a run of image_tool.main or
\* download_images.main that repeats a complete run with the same keywords
\* and configuration, no step issues a search, evaluation or download request
\* and no step changes a file under output/ or output_candidates/.
C1_SecondRunIdempotent ==
    [][(RepeatsCompleteRun /\ run' = run) =>
          /\ Requests(tlog') = <<>>
          /\ <<output, folders, candidates>>' = <<output, folders, candidates>>]_vars

\* C3 (the claim as stated): no failure while a keyword is processed makes
\* a driver leave its loop before the last keyword.
C3_BatchNeverAborts == pc # "aborted"

\* C6: in image_tool.main and evaluate_best.main, when the final file of
\* the keyword at the head of the loop exists, the keyword's turn ends at
\* once with no request and no change to any file; and no step of any run
\* changes or removes a final file that exists.
C6_FinalFileMarker ==
    [][/\ (/\ pc = "check"
           /\ cfg.driver \in {"image_tool", "evaluate_best"}
           /\ output[stem(keywords[kidx])].kind # "absent")
          => /\ pc' = "end"
             /\ Requests(tlog') = <<>>
             /\ kidx' = kidx
             /\ fs' = fs
       /\ \A s \in DOMAIN output :
             output[s].kind # "absent" => output'[s] = output[s]]_vars

\* evaluate_best.main has just skipped a keyword whose final file
\* image_tool.main wrote in the run before.
C6_Witness ==
    /\ run = 2
    /\ history[1].cfg.driver = "image_tool"
    /\ cfg.driver = "evaluate_best"
    /\ pc = "end"
    /\ tlog = << <<"skip">> >>
    /\ output[stem(keywords[kidx])].kind = "jpeg"

\* C7 (the claim as stated): image_tool.main and download_images.main skip a
\* keyword, with no request and no file change, exactly when its candidate
\* directory exists and holds at least num_results .jpg files.
C7_CandidateStoreSkip ==
    [][(pc = "check" /\ cfg.driver \in {"image_tool", "download_images"}) =>
          /\ (pc' = "end") <=> Sufficient(keywords[kidx])
          /\ Sufficient(keywords[kidx]) => (Requests(tlog') = <<>> /\ fs' = fs)]_vars

(***************************************************************************)
(* What the claims about download_image read off a call.                   *)
(***************************************************************************)
IsSleepOf(e, ms) == e[1] = "sleep" /\ e[2] = ms

\* C11 (the claim as stated): a call issues at most max_retries GETs, its
\* log ends with the save of the accepted attempt when it returns True, and
\* between any two GETs of the call there is a sleep of one second.
C11_RetryDiscipline ==
    LET log == download.log IN
    /\ Len(Gets(log)) <= download.max_retries
    /\ download.ret = "True" => log[Len(log)][1] = "save"
    /\ \A i \in DOMAIN log : \A j \in DOMAIN log :
          (i < j /\ IsGet(log[i]) /\ IsGet(log[j])) =>
             \E k \in (i + 1)..(j - 1) : IsSleepOf(log[k], 1000)

\* What the last attempt met.
LastOutcome == outcomes[Len(outcomes)]
Rejected(o) == o.transport \/ o.status # 200 \/ o.len < 1024 \/ ~o.decodes

\* C20: an attempt makes the call return True only when it met status 200
\* and a payload of at least 1024 bytes that decoded, and its JPEG is then
\* what the destination holds; an attempt that met a transport error,
\* another status, a smaller payload or an undecodable one leaves the
\* destination as it was.
C20_Acceptance ==
    [][(outcomes' # outcomes) =>
          LET o == outcomes'[Len(outcomes')] IN
          /\ download'.ret = "True" =>
                /\ ~Rejected(o)
                /\ download'.file = Jpeg(download.url, o.saved)
          /\ Rejected(o) =>
                /\ download'.file = download.file
                /\ download'.ret # "True"]_vars

\* A call returned True at its second attempt, after a 404, and replaced
\* what an earlier call had left at the destination.
C20_Witness ==
    /\ download.ret = "True"
    /\ Len(outcomes) = 2
    /\ outcomes[1].status = 404
    /\ ~Rejected(LastOutcome)
    /\ download.file = Jpeg(TheUrl, 4096)

(***************************************************************************)
(* What the claims about evaluate_best_image read off a call.              *)
(***************************************************************************)
\* The inference loop is over.
LoopOver == ev.pc \in {"cleanup", "return"}

\* C12 (the claim as stated): at most max_retries inference calls are made;
\* a call that raised is followed by another one as long as fewer than
\* max_retries were made, whatever the error; the call of attempt a >= 1
\* comes right after a sleep of 2^a seconds; and when every call raised,
\* the first candidate is chosen.
C12_RetryOnAnyError ==
    /\ GenerateCalls <= ev.max_retries
    /\ \A i \in DOMAIN responses :
          (LoopOver /\ responses[i].kind = "error" /\ i < ev.max_retries) =>
              i < Len(responses)
    /\ \A j \in DOMAIN ev.log :
          (ev.log[j][1] = "generate" /\ ev.log[j][2] >= 1) =>
              ev.log[j - 1] = <<"sleep", Pow2(ev.log[j][2]) * 1000>>
    /\ (LoopOver /\ responses # <<>>
           /\ \A i \in DOMAIN responses : responses[i].kind = "error") =>
          SelectedRank = FirstRank

\* Control has left evaluate_best_image, by a return or by an exception.
LeftFunction == ev.pc \in {"return", "raised"}
DeleteAttempted(j) == \E i \in DOMAIN ev.log : ev.log[i][1] = "delete" /\ ev.log[i][2] = j

\* C13 (the claim as stated): once control has left evaluate_best_image, a
\* delete was attempted on every file that had been uploaded; and a delete,
\* failed or not, raises nothing and leaves the chosen index as it was.
C13_Cleanup ==
    /\ [](LeftFunction =>
            \A j \in DOMAIN ev.uploaded_files : ev.uploaded_files[j] => DeleteAttempted(j))
    /\ [][(ev'.cleaned # ev.cleaned) =>
            (ev'.best_index = ev.best_index /\ ev'.pc # "raised")]_vars

(***************************************************************************)
(* What the claims about the final file and the candidates read off a run. *)
(***************************************************************************)
\* The keyword's turn reached the end of the loop body and was not a skip.
Processed == pc = "end" /\ tlog # <<>> /\ tlog[1][1] # "skip"

\* The ranks of the candidates downloaded and validated in this turn.
ValidatedRanks == {downloaded_images[j] + 1 : j \in DOMAIN downloaded_images}
LowestRank(S) == CHOOSE r \in S : \A q \in S : r <= q

\* C14: image_tool.main without the evaluator: after a keyword was
\* processed, the final file equals candidate_1.jpg when candidate 1 was
\* downloaded and validated, else the validated candidate of lowest rank,
\* and there is no final file when no candidate was validated.
C14_DefaultSelection ==
    (Processed /\ cfg.driver = "image_tool" /\ ~cfg.use_gemini_eval) =>
        LET final == output[stem(keywords[kidx])]
            folder == candidates[stem(keywords[kidx])]
        IN IF ValidatedRanks = {} THEN final.kind = "absent"
           ELSE /\ final.kind = "jpeg"
                /\ final = folder[LowestRank(ValidatedRanks)]
                /\ 1 \in ValidatedRanks => final = folder[1]

\* Candidate 1 failed, candidate 2 was validated and is the final file.
C14_Witness ==
    /\ Processed /\ cfg.driver = "image_tool" /\ ~cfg.use_gemini_eval
    /\ downloaded_images = <<1>>
    /\ output[stem(keywords[kidx])] = Jpeg(<<1, 2>>, 4096)
    /\ candidates[stem(keywords[kidx])][1].kind = "absent"

\* C15 (the claim as stated): at the end of a keyword's turn in
\* image_tool.main or download_images.main, every candidate file of the
\* keyword's directory is a completely written image of at least 1024 bytes.
C15_CandidateFiles ==
    (pc = "end" /\ cfg.driver \in {"image_tool", "download_images"}) =>
        \A n \in DOMAIN candidates[stem(keywords[kidx])] :
            LET f == candidates[stem(keywords[kidx])][n] IN
            f.kind # "absent" => (f.kind = "jpeg" /\ f.len >= 1024)

\* C16: in a run of image_tool.main, at the end of a keyword's turn the
\* final file is a complete image equal to one of the keyword's candidate
\* files when a candidate was downloaded and validated in the turn, and is
\* absent when the keyword was processed without one; and the steps of the
\* run change no file of another keyword, and none after the turn's end, so
\* that this is what the run ends with.
C16_OneFinalPerKeyword ==
    /\ []((pc = "end" /\ cfg.driver = "image_tool") =>
            LET final == output[stem(keywords[kidx])]
                folder == candidates[stem(keywords[kidx])]
            IN /\ ValidatedRanks # {} =>
                    /\ final.kind = "jpeg"
                    /\ \E n \in DOMAIN folder : folder[n] = final
               /\ (Processed /\ ValidatedRanks = {}) => final.kind = "absent")
    /\ [][(cfg.driver = "image_tool" /\ run' = run) =>
            /\ \A s \in DOMAIN output :
                  s # stem(keywords[kidx]) =>
                     (output'[s] = output[s] /\ candidates'[s] = candidates[s])
            /\ pc \in {"end", "done"} => (output' = output /\ candidates' = candidates)]_vars

\* A run of image_tool.main over two keywords has ended: the first has a
\* final file equal to its second candidate, the second has none.
C16_Witness ==
    /\ pc = "done" /\ cfg.driver = "image_tool" /\ run = 1
    /\ Len(keywords) = 2
    /\ output[stem(keywords[1])] = candidates[stem(keywords[1])][2]
    /\ output[stem(keywords[1])].kind = "jpeg"
    /\ output[stem(keywords[2])].kind = "absent"

(***************************************************************************)
(* What the claims about the selection of the keywords read off a run.     *)
(***************************************************************************)
\* The variable is given a value that is not empty.
Given(v) == v.set /\ v.val # <<>>
Range(f) == {f[i] : i \in DOMAIN f}
NoIndexes(environ) == [environ EXCEPT !.START_INDEX = EnvUnset, !.END_INDEX = EnvUnset]
IndexOr(v, default) == IF v.set THEN DecimalValue(v.val) ELSE default

\* C17: the selection made with PROCESS_IDS given is the one made with it
\* alone; else the one made with PROCESS_PARTS given is the one made with it
\* alone; else the records at the positions start..end-1 are selected, start
\* being 0 and end the length of the list when not given.
C17_ModePrecedence ==
    sel.pc = "done" =>
        LET e == sel.environ
            data == sel.keywords_data
            Alone(environ) == select_keywords(sel.raw, environ).filtered_keywords
            s == IndexOr(e.START_INDEX, 0)
            t == IndexOr(e.END_INDEX, Len(data))
        IN IF Given(e.PROCESS_IDS)
           THEN sel.filtered_keywords =
                    Alone([NoIndexes(e) EXCEPT !.PROCESS_PARTS = EnvUnset])
           ELSE IF Given(e.PROCESS_PARTS)
           THEN sel.filtered_keywords =
                    Alone([NoIndexes(e) EXCEPT !.PROCESS_IDS = EnvUnset])
           ELSE sel.filtered_keywords = SubSeq(data, s + 1, Min(t, Len(data)))

\* PROCESS_IDS=1-2 was honoured although PROCESS_PARTS=2 and an empty index
\* range were given too.
C17_Witness ==
    /\ sel.pc = "done"
    /\ sel.environ.PROCESS_IDS = EnvValue(Id(1, 2))
    /\ sel.environ.PROCESS_PARTS = EnvValue(Str(2))
    /\ sel.environ.START_INDEX = EnvValue(Str(0))
    /\ sel.environ.END_INDEX = EnvValue(Str(0))
    /\ Len(sel.keywords_data) = MaxSeq + 1
    /\ sel.filtered_keywords = <<Rec(Id(1, 2), "a")>>

\* The element of PROCESS_IDS the loop is at, and what it says when it is a
\* range a:b of two ids <part>-<sequence>.
Element == strip(Head(sel.id_specs))
RangeEnd(h) == split(split(Element, ":")[h], "-")
WellFormedId(pieces) ==
    Len(pieces) = 2 /\ \A h \in 1..2 : pieces[h] # <<>> /\ \A i \in DOMAIN pieces[h] : IsDigit(pieces[h][i])
IsRange ==
    /\ Len(split(Element, ":")) = 2
    /\ WellFormedId(RangeEnd(1)) /\ WellFormedId(RangeEnd(2))
RangeIds ==
    IF RangeEnd(1)[1] = RangeEnd(2)[1]
    THEN {(RangeEnd(1)[1] \o <<"-">>) \o Str(n) :
             n \in DecimalValue(RangeEnd(1)[2])..DecimalValue(RangeEnd(2)[2])}
    ELSE {}

\* C18: an element a:b adds to the selected ids exactly the ids p-n with
\* seq(a) <= n <= seq(b) when a and b share the prefix p, and nothing when
\* they do not; in both cases the loop goes on with the remaining elements;
\* and the records selected are exactly those whose id was added.
C18_IdRanges ==
    [][/\ (sel.pc = "ids" /\ sel.id_specs # <<>> /\ IsRange) =>
             /\ sel'.pc = "ids"
             /\ sel'.id_specs = Tail(sel.id_specs)
             /\ sel'.selected_ids = sel.selected_ids \cup RangeIds
       /\ (sel.pc = "ids" /\ sel.id_specs = <<>>) =>
             /\ sel'.pc = "done"
             /\ sel'.filtered_keywords =
                   SelectSeq(sel.keywords_data, LAMBDA k : k.id \in sel.selected_ids)]_vars

\* PROCESS_IDS=1-2:2-1,1-1: the range across partitions selected nothing,
\* the id after it was honoured.
C18_Witness ==
    /\ sel.pc = "done"
    /\ sel.environ.PROCESS_IDS = EnvValue(Id(1, 2) \o Colon \o Id(2, 1) \o Comma \o Id(1, 1))
    /\ Len(sel.keywords_data) = MaxSeq + 1
    /\ sel.selected_ids = {Id(1, 1)}
    /\ sel.filtered_keywords = <<Rec(Id(1, 1), "a")>>

RECURSIVE JoinIds(_)
JoinIds(ids) ==
    IF ids = <<>> THEN <<>>
    ELSE IF Len(ids) = 1 THEN ids[1]
    ELSE (ids[1] \o Comma) \o JoinIds(Tail(ids))

\* The selection made with PROCESS_IDS listing ids, and nothing else given.
ByIds(ids) ==
    select_keywords(sel.raw,
        [PROCESS_IDS |-> EnvValue(JoinIds(ids)), PROCESS_PARTS |-> EnvUnset,
         START_INDEX |-> EnvUnset, END_INDEX |-> EnvUnset]).filtered_keywords

\* The ids of the records at the 0-based positions s..e-1 of the list.
IdsAt(data, s, e) == [j \in 1..(Min(e, Len(data)) - s) |-> data[s + j].id]
\* The ids of the records whose prefix is in P.
IdsOfParts(data, P) ==
    LET picked == SelectSeq(data, LAMBDA k : split(k.id, "-")[1] \in P)
    IN [j \in DOMAIN picked |-> picked[j].id]
PartsGiven ==
    {strip(p) : p \in Range(split(sel.environ.PROCESS_PARTS.val, ","))}

\* The ids the selection made is to be compared on: those of the index
\* range, or those of the partitions.
EquivalentIds ==
    IF Given(sel.environ.PROCESS_PARTS)
    THEN IdsOfParts(sel.keywords_data, PartsGiven)
    ELSE IdsAt(sel.keywords_data, IndexOr(sel.environ.START_INDEX, 0),
               IndexOr(sel.environ.END_INDEX, Len(sel.keywords_data)))

DistinctIds(data) ==
    \A i \in DOMAIN data : \A j \in DOMAIN data : data[i].id = data[j].id => i = j

\* C19 (the claim as stated): the index range [s, e) and the partition set P
\* select the same set of records as PROCESS_IDS listing the ids of the
\* positions s..e-1, or the ids whose prefix is in P.
C19_CrossMode ==
    (sel.pc = "done" /\ ~Given(sel.environ.PROCESS_IDS)) =>
        Range(sel.filtered_keywords) = Range(ByIds(EquivalentIds))

\* C19 (amended): the same, for lists whose ids are pairwise distinct and
\* for ranges and partition sets that cover at least one record.
C19_CrossModeAmended ==
    (/\ sel.pc = "done" /\ ~Given(sel.environ.PROCESS_IDS)
     /\ DistinctIds(sel.keywords_data)
     /\ EquivalentIds # <<>>) =>
        Range(sel.filtered_keywords) = Range(ByIds(EquivalentIds))

\* PROCESS_PARTS=1 selected the MaxSeq records of partition 1, as the list
\* of their ids does.
C19_Witness ==
    /\ sel.pc = "done"
    /\ sel.environ.PROCESS_IDS = EnvUnset
    /\ sel.environ.PROCESS_PARTS = EnvValue(Str(1))
    /\ Len(sel.keywords_data) = MaxSeq + 1
    /\ Len(sel.filtered_keywords) = MaxSeq
    /\ Len(EquivalentIds) = MaxSeq

\* The input list without the rows whose id is empty or the header marker.
ValidRows == SelectSeq(sel.raw, LAMBDA k : k.id # <<>> /\ k.id # HeaderId)

RECURSIVE IsSubsequence(_, _)
IsSubsequence(f, d) ==
    IF f = <<>> THEN TRUE
    ELSE IF d = <<>> THEN FALSE
    ELSE IF Head(f) = Head(d) THEN IsSubsequence(Tail(f), Tail(d))
    ELSE IsSubsequence(f, Tail(d))

\* Every record that shares its id with an emitted record is emitted.
DuplicatesEmitted ==
    \A i \in DOMAIN ValidRows : \A j \in DOMAIN ValidRows :
        (ValidRows[i].id = ValidRows[j].id /\ ValidRows[i] \in Range(sel.filtered_keywords))
            => ValidRows[j] \in Range(sel.filtered_keywords)

GetsBefore(i) == Len(Gets(SubSeq(search.log, 1, i)))

\* C22: in the log of a call, a request that is not the last event is
\* followed by the 0.3 s pause; a pause follows a request directly, that
\* request is not the last planned one and its page was answered with items,
\* and when the call has returned every pause is followed by a request.
C22_InterPagePacing ==
    \A i \in DOMAIN search.log :
        LET e == search.log[i] IN
        /\ (e[1] = "GET" /\ i < Len(search.log))
             => search.log[i + 1] = <<"sleep", PageDelayMs>>
        /\ e[1] = "sleep" =>
             /\ e = <<"sleep", PageDelayMs>>
             /\ i > 1 /\ search.log[i - 1][1] = "GET"
             /\ GetsBefore(i) < requests_needed(search.num)
             /\ ~BadPage(pages[GetsBefore(i)])
             /\ search.pc = "return" =>
                    (i < Len(search.log) /\ search.log[i + 1][1] = "GET")

\* A call for 25 results whose three pages are full: two pauses, none after
\* the third page.
C22_Witness ==
    /\ search.pc = "return"
    /\ search.num = 25
    /\ search.log = << <<"GET", 1, 10>>, <<"sleep", PageDelayMs>>,
                       <<"GET", 11, 10>>, <<"sleep", PageDelayMs>>,
                       <<"GET", 21, 5>> >>

(***************************************************************************)
(* Specification of the cooldown: a run of evaluate_best.main, or of       *)
(* image_tool.main with or without the evaluator, over MaxTurns keywords,  *)
(* every keyword's turn going any of the ways its driver has.              *)
(***************************************************************************)
MaxTurns == 12

InitCooldown ==
    /\ cool \in {cool_start("evaluate_best", TRUE, MaxTurns)}
                \cup {cool_start("image_tool", g, MaxTurns) : g \in BOOLEAN}
    /\ fixer = FixIdle
    /\ sel = SelIdle
    /\ search = SearchIdle
    /\ pages = <<>>
    /\ download = DownloadIdle
    /\ outcomes = <<>>
    /\ ev = EvalIdle
    /\ responses = <<>>
    /\ chosen = 0
    /\ downloaded_images = <<>>
    /\ pc = "idle"
    /\ PipeIdle

CoolTurn ==
    /\ cool.pc = "loop"
    /\ cool.i <= cool.n
    /\ \E way \in ways(cool.driver) : cool' = main_turn(cool, way)
    /\ UNCHANGED <<searchVars, downloadVars, evalVars, pipeVars, selVars, fixer>>

CoolEnd ==
    /\ cool.pc = "loop"
    /\ cool.i > cool.n
    /\ cool' = [cool EXCEPT !.pc = "done"]
    /\ UNCHANGED <<searchVars, downloadVars, evalVars, pipeVars, selVars, fixer>>

NextCooldown == CoolTurn \/ CoolEnd

SpecCooldown == InitCooldown /\ [][NextCooldown]_vars

\* Integer division of a natural number by CooldownEvery.
Tens(k) == k \div CooldownEvery

\* C23: with the evaluator in use, at every point of a run the cooldowns
\* taken so far are as many as the multiples of 10 the count of successfully
\* evaluated keywords has reached, each of 30 s, whatever the other turns did.
C23_PeriodicCooldown ==
    (cool.pc # "idle" /\ (cool.driver = "evaluate_best" \/ cool.use_gemini_eval)) =>
        cool.sleeps = [j \in 1..Tens(cool.count) |-> CooldownMs]

(***************************************************************************)
(* Order of the stages within a keyword's turn                             *)
(***************************************************************************)
\* The place of a call in the order search, download, selection, copy.
Stage(e) ==
    CASE e[1] = "search" -> 1
      [] e[1] = "download" -> 2
      [] e[1] = "evaluate" -> 3
      [] e[1] = "copy" -> 4
      [] OTHER -> 0

\* C24: in a turn of image_tool.main the calls come in the order of the
\* stages: the search before every candidate download, every candidate
\* download before the evaluator's call, the evaluator's call before the copy.
C24_StageOrdering ==
    cfg.driver = "image_tool" =>
        \A i, j \in DOMAIN tlog : i < j => Stage(tlog[i]) <= Stage(tlog[j])

(***************************************************************************)
(* Bounded work and termination                                            *)
(***************************************************************************)
\* The requests a call of the turn made stay within the bound of its kind.
WithinBounds(e) ==
    CASE e[1] = "search" -> e[3] <= ProviderCeiling \div PerRequest
      [] e[1] = "download" -> e[3] <= DownloadMaxRetries
      [] e[1] = "evaluate" -> e[3] <= EvalMaxRetries
      [] OTHER -> TRUE

Ended == pc \in {"done", "aborted"}

OtherKeywordsUntouched ==
    \A s \in Stems \ {stem(Item)} :
        /\ output'[s] = output[s]
        /\ candidates'[s] = candidates[s]
        /\ (s \in folders') = (s \in folders)

\* C26: a step of a driver changes files only in the candidate directory
\* and at the final path of the keyword the loop is at: the other keywords'
\* files and the files outside output/ and output_candidates/ (here the
\* working directory) are after the step as they were before it.
C26_WriteFrame ==
    [][OtherKeywordsUntouched /\ tempfiles' = tempfiles]_vars

(***************************************************************************)
(* Candidate numbering                                                     *)
(***************************************************************************)
\* C27: at the end of a turn of image_tool.main or download_images.main that
\* processed its keyword, every candidate_<n>.jpg of the keyword's directory
\* holds the image of the n-th result of the turn's search.
C27_CandidateNumbering ==
    (Processed /\ cfg.driver \in {"image_tool", "download_images"}) =>
        \A n \in DOMAIN candidates[stem(Item)] :
            LET f == candidates[stem(Item)][n] IN
            f.kind # "absent" => (n <= Len(images) /\ f.url = images[n])

(***************************************************************************)
(* The images shown to the evaluator                                       *)
(***************************************************************************)
\* The positions, in the list the selector indexes (candidate_files in
\* evaluate_best, images in image_tool), of the images put into `contents`,
\* in the order they are put there: the entries of uploaded_files that are
\* not None.
RECURSIVE ShownUpTo(_)
ShownUpTo(k) ==
    IF k = 0 THEN <<>>
    ELSE ShownUpTo(k - 1) \o (IF ev.uploaded_files[k] THEN <<k>> ELSE <<>>)

Shown == ShownUpTo(Len(ev.uploaded_files))

\* C28: when the evaluator is called, the j-th image it is shown is the j-th
\* image of the list the selector indexes, whatever uploads or temporary
\* downloads failed before.
C28_IndexAlignment ==
    GenerateCalls > 0 => \A j \in DOMAIN Shown : Shown[j] = j

(***************************************************************************)
(* Specification of fix_corrupted_images.main: a run over a keyword list   *)
(* and the files of output/, with any answer at the prompt and removals    *)
(* that succeed or fail.                                                   *)
(***************************************************************************)
\* A file of output/ that no keyword of the list names.
OtherName == <<"o", "t", "h", "e", "r">>
FixNames == Stems \cup {OtherName}

\* The first bytes of a JPEG file and of an HTML error page.
JpegHead == <<255, 216, 255, 224>>
HtmlHead == <<60, 33, 68, 79>>

FileShapes ==
    {Absent,
     OnDisk(FixMinBytes - 1, JpegHead, TRUE),
     OnDisk(FixMinBytes, JpegHead, TRUE),
     OnDisk(FixMinBytes, JpegHead, FALSE),
     OnDisk(FixMinBytes, HtmlHead, TRUE)}

\* keywords.json: the header row and the records; or one record twice.
FixLists ==
    {<<[id |-> HeaderId, keyword_formatted |-> <<"k">>]>> \o keywords_data,
     <<Record(1), Record(1)>>}

Answers == {<<"y">>, <<"Y">>, <<"n">>, <<"y", "e", "s">>, <<>>}

InitFixer ==
    /\ fixer \in {fix_start(TRUE, raw, files) : raw \in FixLists,
                                                 files \in [FixNames -> FileShapes]}
                 \cup {fix_start(FALSE, raw, [n \in FixNames |-> Absent]) : raw \in FixLists}
    /\ cool = CoolIdle
    /\ sel = SelIdle
    /\ search = SearchIdle
    /\ pages = <<>>
    /\ download = DownloadIdle
    /\ outcomes = <<>>
    /\ ev = EvalIdle
    /\ responses = <<>>
    /\ chosen = 0
    /\ downloaded_images = <<>>
    /\ pc = "idle"
    /\ PipeIdle

FixCheck ==
    /\ fixer.pc = "check"
    /\ fixer' = fix_check(fixer)
    /\ UNCHANGED <<searchVars, downloadVars, evalVars, pipeVars, selVars, cool>>

FixAnswer ==
    /\ fixer.pc = "ask"
    /\ \E response \in Answers : fixer' = fix_answer(fixer, response)
    /\ UNCHANGED <<searchVars, downloadVars, evalVars, pipeVars, selVars, cool>>

FixDelete ==
    /\ fixer.pc = "delete"
    /\ \E removable \in BOOLEAN : fixer' = fix_delete(fixer, removable)
    /\ UNCHANGED <<searchVars, downloadVars, evalVars, pipeVars, selVars, cool>>

NextFixer == FixCheck \/ FixAnswer \/ FixDelete

SpecFixer == InitFixer /\ [][NextFixer]_vars

\* The names the list expects, and the names in one of main's lists.
Expected == {stem(fixer.keywords_data[k]) : k \in DOMAIN fixer.keywords_data}
Listed(l) == {l[k] : k \in DOMAIN l}

LooksValid(f) == f.exists /\ f.size >= 1024 /\ SubSeq(f.head, 1, 2) = <<255, 216>>

Changed(n) == fixer.files[n] # fixer.before[n]

\* What the claim says besides the classification and the answer: a changed
\* file is one that was classified corrupted and is now deleted, and after
\* the deletions every corrupted file whose removal did not fail is gone.
DeletesOnlyCorrupted ==
    /\ \A n \in FixNames :
          Changed(n) => (n \in Listed(fixer.corrupted_files) /\ fixer.files[n] = Absent)
    /\ fixer.pc = "done" /\ (\E n \in FixNames : Changed(n)) =>
          \A n \in Listed(fixer.corrupted_files) \ fixer.failed : fixer.files[n] = Absent

\* C29 (the claim as stated): once the files are checked, the files listed
\* valid are the expected files that exist, hold at least 1024 bytes and
\* begin with FF D8; a file is changed only by deleting it, only when it was
\* classified corrupted and the answer was 'y'; a failed removal does not
\* keep the other corrupted files from being deleted.
C29_Fixer ==
    fixer.pc \in {"ask", "delete", "done"} =>
        /\ \A n \in FixNames :
              n \in Listed(fixer.valid_files) <=>
                  (n \in Expected /\ LooksValid(fixer.before[n]))
        /\ \A n \in FixNames : Changed(n) => fixer.response = <<"y">>
        /\ DeletesOnlyCorrupted

\* C29 (amended): the files listed valid are the expected files that exist,
\* hold at least 1024 bytes, can be read and begin with FF D8; a file is
\* changed only by deleting it, only when it was classified corrupted and the
\* answer was 'y' or 'Y'; a failed removal does not keep the other corrupted
\* files from being deleted.
C29_FixerAmended ==
    fixer.pc \in {"ask", "delete", "done"} =>
        /\ \A n \in FixNames :
              n \in Listed(fixer.valid_files) <=>
                  (n \in Expected /\ LooksValid(fixer.before[n]) /\ fixer.before[n].readable)
        /\ \A n \in FixNames : Changed(n) => fixer.response \in {<<"y">>, <<"Y">>}
        /\ DeletesOnlyCorrupted

\* After the answer 'y': the first keyword's file, an HTML page, is deleted,
\* the removal of the second one's, too small, failed, and the file no
\* keyword names is still there.
C29_Witness ==
    /\ fixer.pc = "done"
    /\ fixer.response = <<"y">>
    /\ fixer.before[stem(Record(1))] = OnDisk(FixMinBytes, HtmlHead, TRUE)
    /\ fixer.files[stem(Record(1))] = Absent
    /\ fixer.failed = {stem(Record(2))}
    /\ fixer.files[stem(Record(2))] = OnDisk(FixMinBytes - 1, JpegHead, TRUE)
    /\ fixer.files[OtherName] = OnDisk(FixMinBytes, HtmlHead, TRUE)

====
